---- MODULE Spec2Model ----
(***************************************************************************)
(* Model of the GSMap / GSSegment horizontal remap engine                  *)
(* (components/scream/src/share/field/field_utils.hpp, lines 108-582).     *)
(*                                                                         *)
(* Reals are fixed point.  A weight is an integer number of machine        *)
(* epsilons of a single-precision Real, so 1.0 is One = 2^23 and the       *)
(* tolerance of GSSegment::check, 100 * epsilon, is Tol = 100.  Source     *)
(* data are small integers; remapped data are products weight * value, so  *)
(* a remapped value v is stored as v * One.                                *)
(*                                                                         *)
(* Indices keep their C++ values (zero based); a sequence element with C++ *)
(* index i is s[i+1].                                                      *)
(*                                                                         *)
(* One GSMap is modelled: the map of rank my_rank of a communicator of     *)
(* num_ranks ranks.  What the other ranks contribute to a collective is a  *)
(* function of the file, the communicator size and their rank, and is      *)
(* computed by the operators that model the collectives.                   *)
(***************************************************************************)
EXTENDS Integers, Sequences, FiniteSets, TLC

VARIABLES
  gsmap,          \* the GSMap object (record of its members)
  status,         \* "ok", or how the program stopped ("fatal", "crash")
  added,          \* history: the segments passed to add_remap_segment, in call order
  source_data,    \* argument of the last apply_remap call
  remapped_old,   \* content of remapped_data when the last apply_remap was called
  remapped_data,  \* content of remapped_data when the last apply_remap returned
  applied,        \* TRUE when the three buffers above are those of an apply_remap on the current map
  check_out,      \* outcome of the last check
  dofs_arg,       \* the arguments of the set_dof_gids call
  unique_first,   \* when the caller first ran set_unique_source_dofs: after how many add_remap_segment calls
  num_ranks,      \* m_comm.size()
  my_rank,        \* m_comm.rank()
  remap_file,     \* the remap file: [row, col, S], three arrays of length n_s
  load_info,      \* what set_remap_segments_from_file computed on this rank
  rank_pc,        \* set_remap_segments_from_file on all ranks: where each rank is
  issued,         \* set_remap_segments_from_file on all ranks: the collectives each rank has issued
  mmr_names,      \* int_aero_mmr_names_ and cld_aero_mmr_names_ (static storage of the field names)
  name_calls,     \* history of the calls of the mass mixing ratio name functions and their results
  nmr_names,      \* int_aero_nmr_names_ / cld_aero_nmr_names_: the bytes of the slot of one mode
  thr,            \* the threads calling a function concurrently: where each is and its locals
  wet_atm,        \* WetAtmosphere
  dry_atm,        \* DryAtmosphere
  wet_aero,       \* the wet AerosolState
  dry_aero,       \* the dry AerosolState
  progs,          \* mam4::Prognostics of one column
  work,           \* the chemistry work arrays q, qqcw, vmr, vmrcw
  buffer,         \* Buffer: the region of each of its views
  team,           \* the thread teams running a kernel: where each team or thread is
  call            \* the mam_coupling call in progress or last made: arguments, originals, outcome

\* the variables of the GSMap of one rank
gsvars == <<gsmap, status, added, source_data, remapped_old, remapped_data,
            applied, check_out, dofs_arg, unique_first, num_ranks, my_rank, remap_file, load_info>>

\* the variables of the load on all ranks
collvars == <<rank_pc, issued>>

\* the variables of mam_coupling
mamvars == <<mmr_names, name_calls, nmr_names, thr, wet_atm, dry_atm, wet_aero, dry_aero,
             progs, work, buffer, team, call>>

\* what the operations on the GSMap of one rank leave alone
othervars == <<collvars, mamvars>>

vars == <<gsvars, collvars, mamvars>>

----------------------------------------------------------------------------
(* Bounds of the model *)

MaxAdds == 2       \* number of add_remap_segment calls on one map
MaxNs == 3         \* n_s of the remap files that are enumerated entry by entry
MaxSize == 8       \* n_s of the block structured remap files
MaxComm == 4       \* communicator size for the block structured files

----------------------------------------------------------------------------
(* Program constants *)

One == 8388608     \* 1.0 in units of the machine epsilon (2^23)
Tol == 100         \* epsilon * 100.0
NoMatch == -999    \* match_loc when no segment has the DOF
UninitIdx == -1    \* m_dof_idx of a segment before it is resolved (never assigned by a constructor)

Half == One \div 2
Quarter == One \div 4

----------------------------------------------------------------------------
(* Parts of the state that a specification does not use *)

NoCall == [op |-> "none"]

CollIdle ==
  /\ rank_pc = <<>>
  /\ issued = <<>>

MamIdle ==
  /\ mmr_names = <<>>
  /\ name_calls = <<>>
  /\ nmr_names = <<>>
  /\ thr = <<>>
  /\ wet_atm = <<>>
  /\ dry_atm = <<>>
  /\ wet_aero = <<>>
  /\ dry_aero = <<>>
  /\ progs = <<>>
  /\ work = <<>>
  /\ buffer = <<>>
  /\ team = <<>>
  /\ call = NoCall

OtherIdle == CollIdle /\ MamIdle

----------------------------------------------------------------------------
(* Helpers *)

Range(s) == {s[i] : i \in 1..Len(s)}

SeqsUpTo(S, n) == UNION {[1..k -> S] : k \in 0..n}

IsInjective(s) == \A i, j \in 1..Len(s) : s[i] = s[j] => i = j

Abs(x) == IF x < 0 THEN 0 - x ELSE x

\* std::find(v.begin(), v.end(), x) - v.begin(): first position, v.size() if absent
RECURSIVE FindFrom(_, _, _)
FindFrom(v, x, i) ==
  IF i >= Len(v) THEN Len(v)
  ELSE IF v[i + 1] = x THEN i
  ELSE FindFrom(v, x, i + 1)

StdFind(v, x) == FindFrom(v, x, 0)

\* std::sort left out
StdSortNone(v) == v

\* std::sort on a vector of ints
StdSort(v) == SortSeq(v, <)

----------------------------------------------------------------------------
(* GSSegment *)

\* GSSegment(dof_gid, length): views are allocated (zero filled), m_dof_idx is not set
GSSegmentEmpty(dof_gid, length) ==
  [m_dof |-> dof_gid, m_length |-> length,
   m_source_dofs |-> [i \in 1..length |-> 0],
   m_weights     |-> [i \in 1..length |-> 0],
   m_source_idx  |-> [i \in 1..length |-> 0],
   m_dof_idx     |-> UninitIdx]

\* GSSegment(dof_gid, length, source_dofs, weights)
GSSegment(dof_gid, length, source_dofs, weights) ==
  [m_dof |-> dof_gid, m_length |-> length,
   m_source_dofs |-> source_dofs,
   m_weights     |-> weights,
   m_source_idx  |-> [i \in 1..length |-> 0],
   m_dof_idx     |-> UninitIdx]

\* the parallel_reduce of apply_segment: sum of source_data(m_source_idx(ii)) * m_weights(ii)
RECURSIVE ApplyReduce(_, _, _)
ApplyReduce(seg, src, ii) ==
  IF ii >= seg.m_length THEN 0
  ELSE src[seg.m_source_idx[ii + 1] + 1] * seg.m_weights[ii + 1]
       + ApplyReduce(seg, src, ii + 1)

\* apply_segment indexing the source data with the first entry's m_source_idx for every ii
RECURSIVE ApplyReduceFirstIdx(_, _, _)
ApplyReduceFirstIdx(seg, src, ii) ==
  IF ii >= seg.m_length THEN 0
  ELSE src[seg.m_source_idx[1] + 1] * seg.m_weights[ii + 1]
       + ApplyReduceFirstIdx(seg, src, ii + 1)

apply_segment_first_idx(seg, src) == ApplyReduceFirstIdx(seg, src, 0)

\* GSSegment::apply_segment: the reduction result replaces remapped_value
apply_segment(seg, src) == ApplyReduce(seg, src, 0)

\* the parallel_reduce of check: sum of the weights
RECURSIVE WeightReduce(_, _)
WeightReduce(seg, ii) ==
  IF ii >= seg.m_length THEN 0
  ELSE seg.m_weights[ii + 1] + WeightReduce(seg, ii + 1)

\* the three extent checks of GSSegment::check (EKAT_REQUIRE_MSG, fatal)
SegExtentsOk(seg) ==
  /\ Len(seg.m_source_dofs) = seg.m_length
  /\ Len(seg.m_weights) = seg.m_length
  /\ Len(seg.m_source_idx) = seg.m_length

\* check with the comparison > in place of >=
SegCheckStrict(seg) ==
  LET wgt == WeightReduce(seg, 0)
  IN IF Abs(wgt - One) > Tol THEN FALSE ELSE TRUE

\* GSSegment::check: false when |wgt - 1.0| >= tol
SegCheck(seg) ==
  LET wgt == WeightReduce(seg, 0)
  IN IF Abs(wgt - One) >= Tol THEN FALSE ELSE TRUE

----------------------------------------------------------------------------
(* GSMap *)

\* member values of a GSMap after GSMap(comm): no DOFs, no segments, unique set not computed
GSMapFresh ==
  [m_dofs_set |-> FALSE, m_dofs_gids |-> <<>>, m_num_dofs |-> 0,
   m_map_segments |-> <<>>, m_num_segments |-> 0,
   m_unique_dofs |-> <<>>, m_unique_set |-> FALSE]

\* GSMap::set_dof_gids (the EKAT_REQUIRE on the size is the action's guard)
set_dof_gids(m, dofs_gids, min_dof) ==
  [m EXCEPT !.m_dofs_gids = [ii \in 1..Len(dofs_gids) |-> dofs_gids[ii] - min_dof],
            !.m_num_dofs = Len(dofs_gids),
            !.m_dofs_set = TRUE]

\* first loop of set_unique_source_dofs, one segment: push the DOFs not yet in unique_dofs
RECURSIVE PushUnique(_, _, _)
PushUnique(unique_dofs, seg, ii) ==
  IF ii >= seg.m_length THEN unique_dofs
  ELSE LET d == seg.m_source_dofs[ii + 1]
       IN PushUnique(IF StdFind(unique_dofs, d) = Len(unique_dofs)
                     THEN Append(unique_dofs, d) ELSE unique_dofs,
                     seg, ii + 1)

\* first loop of set_unique_source_dofs over the segments iseg..m_num_segments-1
RECURSIVE CollectUnique(_, _, _)
CollectUnique(unique_dofs, m, iseg) ==
  IF iseg >= m.m_num_segments THEN unique_dofs
  ELSE CollectUnique(PushUnique(unique_dofs, m.m_map_segments[iseg + 1], 0), m, iseg + 1)

\* the lookup reporting index 0 for a DOF that is not in m_dofs_gids
RECURSIVE FindDofIdxAlwaysFound(_, _, _)
FindDofIdxAlwaysFound(m, seg_dof, ii) ==
  IF ii >= m.m_num_dofs THEN 0
  ELSE IF m.m_dofs_gids[ii + 1] = seg_dof THEN ii
  ELSE FindDofIdxAlwaysFound(m, seg_dof, ii + 1)

\* lookup of a segment's DOF in m_dofs_gids: first ii < m_num_dofs, NoMatch if none
RECURSIVE FindDofIdx(_, _, _)
FindDofIdx(m, seg_dof, ii) ==
  IF ii >= m.m_num_dofs THEN NoMatch
  ELSE IF m.m_dofs_gids[ii + 1] = seg_dof THEN ii
  ELSE FindDofIdx(m, seg_dof, ii + 1)

\* second loop of set_unique_source_dofs from segment iseg on: set m_dof_idx and
\* m_source_idx; EKAT_REQUIRE(seg_dof_found) stops the loop at the first segment
\* whose DOF is not local, leaving the later segments as they were
RECURSIVE ResolveSegs(_, _, _, _)
ResolveSegs(segs, m, unique_dofs, iseg) ==
  IF iseg >= m.m_num_segments THEN [segs |-> segs, found |-> TRUE]
  ELSE LET seg == segs[iseg + 1]
           ii  == FindDofIdx(m, seg.m_dof, 0)
       IN IF ii = NoMatch THEN [segs |-> segs, found |-> FALSE]
          ELSE ResolveSegs(
                 [segs EXCEPT ![iseg + 1] =
                    [seg EXCEPT !.m_dof_idx = ii,
                                !.m_source_idx = [k \in 1..seg.m_length |->
                                                    StdFind(unique_dofs, seg.m_source_dofs[k])]]],
                 m, unique_dofs, iseg + 1)

\* GSMap::set_unique_source_dofs: the map it leaves and whether it returned normally
set_unique_source_dofs(m) ==
  LET unique_dofs == StdSort(CollectUnique(<<>>, m, 0))
      res == ResolveSegs(m.m_map_segments, m, unique_dofs, 0)
  IN [map |-> [m EXCEPT !.m_unique_dofs = unique_dofs,
                        !.m_unique_set = TRUE,
                        !.m_map_segments = res.segs],
      ok |-> res.found]

\* the search of add_remap_segment for a segment with the same DOF
RECURSIVE FindMatch(_, _, _)
FindMatch(m, seg_dof, iseg) ==
  IF iseg >= m.m_num_segments THEN NoMatch
  ELSE IF m.m_map_segments[iseg + 1].m_dof = seg_dof THEN iseg
  ELSE FindMatch(m, seg_dof, iseg + 1)

\* the combined segment with the new segment's entries copied first
CombineSegsNewFirst(seg_match, seg) ==
  LET new_length == seg.m_length + seg_match.m_length
      seg_len    == seg.m_length
      new_seg    == GSSegmentEmpty(seg.m_dof, new_length)
  IN [new_seg EXCEPT
        !.m_source_dofs = [ii \in 1..new_length |->
            IF ii <= seg_len THEN seg.m_source_dofs[ii] ELSE seg_match.m_source_dofs[ii - seg_len]],
        !.m_source_idx = [ii \in 1..new_length |->
            IF ii <= seg_len THEN seg.m_source_idx[ii] ELSE seg_match.m_source_idx[ii - seg_len]],
        !.m_weights = [ii \in 1..new_length |->
            IF ii <= seg_len THEN seg.m_weights[ii] ELSE seg_match.m_weights[ii - seg_len]]]

\* the combined segment of add_remap_segment: the matched segment's entries, then seg's
CombineSegs(seg_match, seg) ==
  LET new_length == seg.m_length + seg_match.m_length
      match_len  == seg_match.m_length
      new_seg    == GSSegmentEmpty(seg.m_dof, new_length)
  IN [new_seg EXCEPT
        !.m_source_dofs = [ii \in 1..new_length |->
            IF ii <= match_len THEN seg_match.m_source_dofs[ii] ELSE seg.m_source_dofs[ii - match_len]],
        !.m_source_idx = [ii \in 1..new_length |->
            IF ii <= match_len THEN seg_match.m_source_idx[ii] ELSE seg.m_source_idx[ii - match_len]],
        !.m_weights = [ii \in 1..new_length |->
            IF ii <= match_len THEN seg_match.m_weights[ii] ELSE seg.m_weights[ii - match_len]]]

\* add_remap_segment without the final set_unique_source_dofs
add_remap_segment_stale(m, seg) ==
  LET match_loc == FindMatch(m, seg.m_dof, 0)
      segs == IF match_loc = NoMatch
              THEN Append(m.m_map_segments, seg)
              ELSE [m.m_map_segments EXCEPT
                      ![match_loc + 1] = CombineSegs(m.m_map_segments[match_loc + 1], seg)]
  IN [map |-> [m EXCEPT !.m_map_segments = segs, !.m_num_segments = Len(segs)], ok |-> TRUE]

\* add_remap_segment that appends every segment, also one whose DOF has a segment
add_remap_segment_no_combine(m, seg) ==
  LET segs == Append(m.m_map_segments, seg)
      m1 == [m EXCEPT !.m_map_segments = segs, !.m_num_segments = Len(segs)]
  IN IF m1.m_unique_set THEN set_unique_source_dofs(m1)
     ELSE [map |-> m1, ok |-> TRUE]

\* GSMap::add_remap_segment: the map it leaves and whether it returned normally
add_remap_segment(m, seg) ==
  LET match_loc == FindMatch(m, seg.m_dof, 0)
      segs == IF match_loc = NoMatch
              THEN Append(m.m_map_segments, seg)
              ELSE [m.m_map_segments EXCEPT
                      ![match_loc + 1] = CombineSegs(m.m_map_segments[match_loc + 1], seg)]
      m1 == [m EXCEPT !.m_map_segments = segs, !.m_num_segments = Len(segs)]
  IN IF m1.m_unique_set THEN set_unique_source_dofs(m1)
     ELSE [map |-> m1, ok |-> TRUE]

\* the segment loop of apply_remap on the host mirror, segments iseg..m_num_segments-1.
\* A segment whose m_dof_idx was never assigned writes through an indeterminate
\* index: wild[iseg+1] is where that write lands.
RECURSIVE ApplySegs(_, _, _, _, _)
ApplySegs(m, src, mirror, wild, iseg) ==
  IF iseg >= m.m_num_segments THEN mirror
  ELSE LET seg == m.m_map_segments[iseg + 1]
           seg_dof_idx == IF seg.m_dof_idx = UninitIdx THEN wild[iseg + 1] ELSE seg.m_dof_idx
       IN ApplySegs(m, src,
                    [mirror EXCEPT ![seg_dof_idx + 1] = apply_segment(seg, src)],
                    wild, iseg + 1)

\* apply_remap without the return for m_num_dofs == 0
apply_remap_no_return(m, src, remapped, device, wild) ==
  LET remapped_data_h == IF device THEN [i \in 1..Len(remapped) |-> 0] ELSE remapped
  IN ApplySegs(m, src, remapped_data_h, wild, 0)

\* GSMap::apply_remap: the content of remapped_data on return.  create_mirror_view
\* gives remapped_data itself when it lives in host memory and a new zero filled
\* host view when it lives in device memory (device = TRUE); the final deep_copy
\* copies the whole mirror back.
apply_remap(m, src, remapped, device, wild) ==
  IF m.m_num_dofs = 0 THEN remapped
  ELSE LET remapped_data_h == IF device THEN [i \in 1..Len(remapped) |-> 0] ELSE remapped
       IN ApplySegs(m, src, remapped_data_h, wild, 0)

\* GSMap::check: m_dofs_set is required first, then the segments are checked in
\* order and the first one whose check() returns false stops the loop.
\* seg_checks lists the values the calls of GSSegment::check returned.
\* check naming the DOF of the first segment of the map, whichever segment failed
RECURSIVE CheckSegsFirstDof(_, _, _)
CheckSegsFirstDof(m, iseg, seen) ==
  IF iseg >= Len(m.m_map_segments) THEN [res |-> "pass", dof |-> NoMatch, seg_checks |-> seen]
  ELSE LET seg == m.m_map_segments[iseg + 1]
           seg_check == SegCheck(seg)
       IN IF ~seg_check
          THEN [res |-> "segment", dof |-> m.m_map_segments[1].m_dof,
                seg_checks |-> Append(seen, seg_check)]
          ELSE CheckSegsFirstDof(m, iseg + 1, Append(seen, seg_check))

RECURSIVE CheckSegs(_, _, _)
CheckSegs(m, iseg, seen) ==
  IF iseg >= Len(m.m_map_segments) THEN [res |-> "pass", dof |-> NoMatch, seg_checks |-> seen]
  ELSE LET seg == m.m_map_segments[iseg + 1]
           seg_check == SegCheck(seg)
       IN IF ~SegExtentsOk(seg)
          THEN [res |-> "extent", dof |-> seg.m_dof, seg_checks |-> seen]
          ELSE IF ~seg_check
          THEN [res |-> "segment", dof |-> seg.m_dof, seg_checks |-> Append(seen, seg_check)]
          ELSE CheckSegs(m, iseg + 1, Append(seen, seg_check))

\* check without the requirement on m_dofs_set
check_segments_only(m) == CheckSegs(m, 0, <<>>)

check(m) ==
  IF ~m.m_dofs_set THEN [res |-> "dofs_not_set", dof |-> NoMatch, seg_checks |-> <<>>]
  ELSE CheckSegs(m, 0, <<>>)

----------------------------------------------------------------------------
(* set_remap_segments_from_file *)

RemapSize(file) == Len(file.row)

\* my_chunk with the extra entry given to the ranks up to and including the remainder
MyChunkOffByOne(rank, size, remap_size) ==
  LET my_chunk  == remap_size \div size
      remainder == remap_size - (my_chunk * size)
  IN IF remainder # 0
     THEN my_chunk + (IF rank <= remainder THEN 1 ELSE 0)
     ELSE my_chunk

\* my_chunk of a rank: remap_size/num_ranks, one more on the ranks below the remainder
MyChunk(rank, size, remap_size) ==
  LET my_chunk  == remap_size \div size
      remainder == remap_size - (my_chunk * size)
  IN IF remainder # 0
     THEN my_chunk + (IF rank < remainder THEN 1 ELSE 0)
     ELSE my_chunk

\* all_gather(&my_chunk, chunks_glob, 1): element r+1 is the chunk of rank r
ChunksGlob(size, remap_size) == [r \in 1..size |-> MyChunk(r - 1, size, remap_size)]

\* chunks_glob[0] + ... + chunks_glob[n-1]
RECURSIVE SumChunks(_, _)
SumChunks(chunks_glob, n) ==
  IF n <= 0 THEN 0 ELSE SumChunks(chunks_glob, n - 1) + chunks_glob[n]

MyStart(chunks_glob, rank) == SumChunks(chunks_glob, rank)

\* the value read at index idx of a file array; an index outside the file gives oob
ReadAt(arr, idx, oob) == IF idx >= 0 /\ idx < Len(arr) THEN arr[idx + 1] ELSE oob

\* tgt_col_h: the chunk [my_start, my_start + my_chunk) of "row"
ReadRowChunk(file, my_start, my_chunk) ==
  [ii \in 1..my_chunk |-> file.row[my_start + ii]]

\* the loop of step 2 from index ii on: extend the last triple or start a new one
RECURSIVE GroupChunk(_, _, _, _)
GroupChunk(tgt_col_h, my_start, ii, t) ==
  IF ii >= Len(tgt_col_h) THEN t
  ELSE LET v == tgt_col_h[ii + 1]
           n == Len(t.chunk_dof)
           m == IF v < t.remap_min_dof THEN v ELSE t.remap_min_dof
       IN GroupChunk(tgt_col_h, my_start, ii + 1,
            IF v = t.chunk_dof[n]
            THEN [t EXCEPT !.chunk_len[n] = @ + 1, !.remap_min_dof = m]
            ELSE [chunk_dof   |-> Append(t.chunk_dof, v),
                  chunk_start |-> Append(t.chunk_start, my_start + ii),
                  chunk_len   |-> Append(t.chunk_len, 1),
                  remap_min_dof |-> m])

\* step 2 on one rank.  tgt_col_h(0) is read before the loop whatever my_chunk
\* is; on a rank whose chunk is empty the view has no element 0 and the value
\* read is indeterminate: first0 stands for it.
ChunkTriples(file, size, rank, first0) ==
  LET chunks_glob == ChunksGlob(size, RemapSize(file))
      my_chunk    == chunks_glob[rank + 1]
      my_start    == MyStart(chunks_glob, rank)
      tgt_col_h   == ReadRowChunk(file, my_start, my_chunk)
      v0          == IF my_chunk > 0 THEN tgt_col_h[1] ELSE first0
  IN GroupChunk(tgt_col_h, my_start, 1,
       [chunk_dof |-> <<v0>>, chunk_start |-> <<my_start>>, chunk_len |-> <<1>>,
        remap_min_dof |-> v0])

\* the three MPI_Allgatherv: the triples of ranks 0..n-1, in rank order
RECURSIVE GatherTriples(_, _, _, _)
GatherTriples(file, size, n, first0) ==
  IF n <= 0 THEN [buff_dof |-> <<>>, buff_sta |-> <<>>, buff_len |-> <<>>]
  ELSE LET g == GatherTriples(file, size, n - 1, first0)
           t == ChunkTriples(file, size, n - 1, first0[n])
       IN [buff_dof |-> g.buff_dof \o t.chunk_dof,
           buff_sta |-> g.buff_sta \o t.chunk_start,
           buff_len |-> g.buff_len \o t.chunk_len]

\* all_reduce(&remap_min_dof, &global_remap_min_dof, 1, MPI_MIN)
GlobalRemapMinDof(file, size, first0) ==
  LET mins == {ChunkTriples(file, size, r, first0[r + 1]).remap_min_dof : r \in 0..(size - 1)}
  IN CHOOSE x \in mins : \A y \in mins : x <= y

Iota(start, n) == [k \in 1..n |-> start + k - 1]

\* step 3, inner loop over the local DOFs jj.. for the triple ii: every local DOF
\* equal to the triple's DOF appends one (seg_dof, seg_start, seg_length) and the
\* triple's file indices to var_dof
RECURSIVE MatchDofs(_, _, _, _, _, _)
MatchDofs(g, global_remap_min_dof, dofs_gids_h, ii, jj, acc) ==
  IF jj >= Len(dofs_gids_h) THEN acc
  ELSE MatchDofs(g, global_remap_min_dof, dofs_gids_h, ii, jj + 1,
         IF g.buff_dof[ii + 1] - global_remap_min_dof = dofs_gids_h[jj + 1]
         THEN [seg_dof    |-> Append(acc.seg_dof, g.buff_dof[ii + 1]),
               seg_start  |-> Append(acc.seg_start, Len(acc.var_dof)),
               seg_length |-> Append(acc.seg_length, g.buff_len[ii + 1]),
               var_dof    |-> acc.var_dof \o Iota(g.buff_sta[ii + 1], g.buff_len[ii + 1])]
         ELSE acc)

\* step 3, outer loop over the gathered triples ii..
RECURSIVE MatchTriples(_, _, _, _, _)
MatchTriples(g, global_remap_min_dof, dofs_gids_h, ii, acc) ==
  IF ii >= Len(g.buff_dof) THEN acc
  ELSE MatchTriples(g, global_remap_min_dof, dofs_gids_h, ii + 1,
         MatchDofs(g, global_remap_min_dof, dofs_gids_h, ii, 0, acc))

\* the segment built from the matched triple ii (lines 270-280)
FileSegment(file, sel, global_remap_min_dof, ii, oob) ==
  LET seglength == sel.seg_length[ii + 1]
      segstart  == sel.seg_start[ii + 1]
      col_h == [k \in 1..Len(sel.var_dof) |-> ReadAt(file.col, sel.var_dof[k], oob.col)]
      S_h   == [k \in 1..Len(sel.var_dof) |-> ReadAt(file.S, sel.var_dof[k], oob.S)]
  IN GSSegment(sel.seg_dof[ii + 1] - global_remap_min_dof, seglength,
               [jj \in 1..seglength |-> col_h[segstart + jj] - global_remap_min_dof],
               [jj \in 1..seglength |-> S_h[segstart + jj]])

\* the segments built from the file on this rank, in the order they are added
FileSegments(file, sel, global_remap_min_dof, oob) ==
  [k \in 1..Len(sel.seg_dof) |-> FileSegment(file, sel, global_remap_min_dof, k - 1, oob)]

\* the add_remap_segment calls of the last loop; a failed call ends the loop
RECURSIVE AddSegments(_, _, _)
AddSegments(m, segs, ii) ==
  IF ii >= Len(segs) THEN [map |-> m, ok |-> TRUE]
  ELSE LET r == add_remap_segment(m, segs[ii + 1])
       IN IF r.ok THEN AddSegments(r.map, segs, ii + 1) ELSE r

\* what a rank has computed when it reaches the chunk_check of line 177
ChunkInfo(m, file, size, rank) ==
  LET chunks_glob == ChunksGlob(size, RemapSize(file))
  IN [loaded |-> TRUE, complete |-> FALSE, dofs_gids |-> m.m_dofs_gids,
      my_chunk |-> chunks_glob[rank + 1], my_start |-> MyStart(chunks_glob, rank),
      chunks_glob |-> chunks_glob, chunk_check |-> SumChunks(chunks_glob, size)]

\* set_remap_segments_from_file on rank `rank` of `size` ranks whose map is m.
\* first0[r+1] is what rank r reads as tgt_col_h(0) when its chunk is empty and
\* oob what a read of "col" and "S" outside the file delivers.
set_remap_segments_from_file(m, file, size, rank, first0, oob) ==
  LET remap_size  == RemapSize(file)
      chunks_glob == ChunksGlob(size, remap_size)
      my_chunk    == chunks_glob[rank + 1]
      my_start    == MyStart(chunks_glob, rank)
      chunk_check == SumChunks(chunks_glob, size)
      t == ChunkTriples(file, size, rank, first0[rank + 1])
      g == GatherTriples(file, size, size, first0)
      global_remap_min_dof == GlobalRemapMinDof(file, size, first0)
      sel == MatchTriples(g, global_remap_min_dof, m.m_dofs_gids, 0,
                          [seg_dof |-> <<>>, seg_start |-> <<>>, seg_length |-> <<>>,
                           var_dof |-> <<>>])
      segs == FileSegments(file, sel, global_remap_min_dof, oob)
      r == AddSegments(m, segs, 0)
      info == [loaded |-> TRUE, complete |-> TRUE, dofs_gids |-> m.m_dofs_gids,
               my_chunk |-> my_chunk, my_start |-> my_start,
               chunks_glob |-> chunks_glob, chunk_check |-> chunk_check,
               chunk_dof |-> t.chunk_dof, chunk_start |-> t.chunk_start,
               chunk_len |-> t.chunk_len, remap_min_dof |-> t.remap_min_dof,
               global_remap_min_dof |-> global_remap_min_dof,
               buff_dof |-> g.buff_dof, buff_sta |-> g.buff_sta, buff_len |-> g.buff_len,
               var_dof |-> sel.var_dof, segs |-> segs]
  IN IF chunk_check # remap_size
     THEN [map |-> m, ok |-> FALSE, segs |-> <<>>, info |-> ChunkInfo(m, file, size, rank)]
     ELSE [map |-> r.map, ok |-> r.ok, segs |-> segs, info |-> info]

----------------------------------------------------------------------------
(* Inputs *)

TargetDofs == {0, 1}
SourceDofs == {0, 1}
Weights == {Half, One}
SrcVals == {1, 3}
TgtVals == {5 * One}
MinDofs == {0, 1}

\* the DOF id lists a caller hands to set_dof_gids with offset min_dof: the ids of
\* a grid are distinct
DofLists(min_dof) ==
  {d \in SeqsUpTo({t + min_dof : t \in TargetDofs}, Cardinality(TargetDofs)) : IsInjective(d)}

\* the segments a caller builds with GSSegment(dof, length, source_dofs, weights)
SegInputs(dofs, srcs, wgts, lens) ==
  UNION {{GSSegment(d, n, sd, w) : d \in dofs, sd \in [1..n -> srcs], w \in [1..n -> wgts]} :
           n \in lens}

NoCheck == [res |-> "none", dof |-> NoMatch, seg_checks |-> <<>>]

\* a change of the map forgets the buffers and the check outcome of the old map
ForgetResults ==
  /\ applied' = FALSE
  /\ source_data' = <<>>
  /\ remapped_old' = <<>>
  /\ remapped_data' = <<>>
  /\ check_out' = NoCheck

NoFile == [row |-> <<>>, col |-> <<>>, S |-> <<>>]
NoLoad == [loaded |-> FALSE, complete |-> FALSE]
NoDofsArg == [called |-> FALSE]
NoUnique == [called |-> FALSE, adds |-> 0]

----------------------------------------------------------------------------
(* Operations on one GSMap *)

\* set_dof_gids(dofs_gids, min_dof) with min_dof drawn from mins; callers set the
\* DOFs of a map once
SetDofGids(mins) ==
  /\ status = "ok"
  /\ ~gsmap.m_dofs_set
  /\ \E min_dof \in mins : \E dofs_gids \in DofLists(min_dof) :
       /\ dofs_arg' = [called |-> TRUE, dofs_gids |-> dofs_gids, min_dof |-> min_dof]
       /\ IF Len(dofs_gids) > 0
          THEN /\ gsmap' = set_dof_gids(gsmap, dofs_gids, min_dof)
               /\ status' = "ok"
          ELSE /\ gsmap' = gsmap
               /\ status' = "fatal"
  /\ ForgetResults
  /\ UNCHANGED othervars
  /\ UNCHANGED <<added, unique_first, num_ranks, my_rank, remap_file, load_info>>

\* add_remap_segment(seg) with seg drawn from segs
AddRemapSegment(segs) ==
  /\ status = "ok"
  /\ Len(added) < MaxAdds
  /\ \E seg \in segs :
       LET r == add_remap_segment(gsmap, seg)
       IN /\ gsmap' = r.map
          /\ status' = IF r.ok THEN "ok" ELSE "fatal"
          /\ added' = Append(added, seg)
  /\ ForgetResults
  /\ UNCHANGED othervars
  /\ UNCHANGED <<dofs_arg, unique_first, num_ranks, my_rank, remap_file, load_info>>

\* set_unique_source_dofs()
SetUniqueSourceDofs ==
  /\ status = "ok"
  /\ LET r == set_unique_source_dofs(gsmap)
     IN /\ gsmap' = r.map
        /\ status' = IF r.ok THEN "ok" ELSE "fatal"
  /\ unique_first' = IF unique_first.called THEN unique_first
                     ELSE [called |-> TRUE, adds |-> Len(added)]
  /\ ForgetResults
  /\ UNCHANGED othervars
  /\ UNCHANGED <<added, dofs_arg, num_ranks, my_rank, remap_file, load_info>>

\* the source buffers a caller passes: one value per unique source DOF (one
\* element when the unique set was never computed)
SourceBuffers(m, vals) ==
  [1..(IF m.m_unique_set THEN Len(m.m_unique_dofs) ELSE 1) -> vals]

\* the target buffers a caller passes: one value per local DOF
TargetBuffers(m, vals) ==
  [1..(IF m.m_num_dofs > 0 THEN m.m_num_dofs ELSE Cardinality(TargetDofs)) -> vals]

HasUninitIdx(m) ==
  \E k \in 1..m.m_num_segments : m.m_map_segments[k].m_dof_idx = UninitIdx

\* where the writes through a never assigned m_dof_idx can land in a buffer of n elements
WildIdx(m, n) ==
  {w \in [1..m.m_num_segments -> 0..(n - 1)] :
     \A k \in 1..m.m_num_segments : m.m_map_segments[k].m_dof_idx # UninitIdx => w[k] = 0}

IsUniform(buf) == \A i, j \in 1..Len(buf) : buf[i] = buf[j]

\* apply_remap(source_data, remapped_data); with uniform only constant source arrays are passed
ApplyRemap(srcvals, uniform) ==
  /\ status = "ok"
  /\ \E src \in {b \in SourceBuffers(gsmap, srcvals) : uniform => IsUniform(b)} :
     \E tgt \in TargetBuffers(gsmap, TgtVals) :
     \E device \in BOOLEAN :
       /\ source_data' = src
       /\ remapped_old' = tgt
       /\ \/ \E wild \in WildIdx(gsmap, Len(tgt)) :
               /\ remapped_data' = apply_remap(gsmap, src, tgt, device, wild)
               /\ status' = "ok"
          \/ /\ gsmap.m_num_dofs # 0
             /\ HasUninitIdx(gsmap)
             /\ remapped_data' = tgt
             /\ status' = "crash"
  /\ applied' = TRUE
  /\ UNCHANGED othervars
  /\ UNCHANGED <<gsmap, added, check_out, dofs_arg, unique_first, num_ranks, my_rank,
                 remap_file, load_info>>

\* check(): a failed EKAT_REQUIRE_MSG ends the program
Check ==
  /\ status = "ok"
  /\ check_out' = check(gsmap)
  /\ status' = IF check_out'.res = "pass" THEN "ok" ELSE "fatal"
  /\ UNCHANGED othervars
  /\ UNCHANGED <<gsmap, added, applied, source_data, remapped_old, remapped_data,
                 dofs_arg, unique_first, num_ranks, my_rank, remap_file, load_info>>

----------------------------------------------------------------------------
(* The map driven through its interface *)

Init ==
  /\ gsmap = GSMapFresh
  /\ status = "ok"
  /\ added = <<>>
  /\ applied = FALSE
  /\ source_data = <<>>
  /\ remapped_old = <<>>
  /\ remapped_data = <<>>
  /\ check_out = NoCheck
  /\ dofs_arg = NoDofsArg
  /\ unique_first = NoUnique
  /\ num_ranks = 1
  /\ my_rank = 0
  /\ remap_file = NoFile
  /\ load_info = NoLoad
  /\ OtherIdle

Next ==
  \/ SetDofGids(MinDofs)
  \/ AddRemapSegment(SegInputs(TargetDofs, SourceDofs, Weights, {0, 1}))
  \/ SetUniqueSourceDofs
  \/ ApplyRemap(SrcVals, FALSE)
  \/ Check

Spec == Init /\ [][Next]_vars

----------------------------------------------------------------------------
(* GSSegment::check on segments whose weights sum to values at, near and far *)
(* from 1.0; the map is built by the constructor that takes the DOF ids      *)

CheckWeights == {Quarter, Half, One, Half - Tol, (Half - Tol) + 1}

InitCheck ==
  /\ \E min_dof \in MinDofs : \E dofs_gids \in DofLists(min_dof) :
       /\ Len(dofs_gids) > 0
       /\ gsmap = set_dof_gids(GSMapFresh, dofs_gids, min_dof)
       /\ dofs_arg = [called |-> TRUE, dofs_gids |-> dofs_gids, min_dof |-> min_dof]
  /\ status = "ok"
  /\ added = <<>>
  /\ applied = FALSE
  /\ source_data = <<>>
  /\ remapped_old = <<>>
  /\ remapped_data = <<>>
  /\ check_out = NoCheck
  /\ unique_first = NoUnique
  /\ num_ranks = 1
  /\ my_rank = 0
  /\ remap_file = NoFile
  /\ load_info = NoLoad
  /\ OtherIdle

NextCheck ==
  \/ AddRemapSegment(SegInputs({0}, {0}, CheckWeights, {0, 1, 2}))
  \/ Check

SpecCheck == InitCheck /\ [][NextCheck]_vars

----------------------------------------------------------------------------
(* Loading the map of one rank from a remap file *)

CommSizes == {1, 2}
RowVals == {1, 2}
ColVals == {0, 2}
GarbageRow == {0, 1}
GarbageRead == {[col |-> 0, S |-> 0], [col |-> 2, S |-> One]}

\* the remap files with n_s entries, every entry chosen freely
Files(n_s) ==
  {[row |-> r, col |-> c, S |-> w] :
     r \in [1..n_s -> RowVals], c \in [1..n_s -> ColVals], w \in [1..n_s -> Weights]}

BlockLens == {1, 4}
BlockSrcVals == {10}

\* the remap file with n_s entries in which each target DOF has b source DOFs of
\* weight 1/b (the last DOF fewer when n_s is not a multiple of b)
BlockFile(n_s, b) ==
  [row |-> [i \in 1..n_s |-> 1 + ((i - 1) \div b)],
   col |-> [i \in 1..n_s |-> 1 + ((i - 1) % b)],
   S   |-> [i \in 1..n_s |-> One \div b]]

EmptyRanks(file, size) == {r \in 0..(size - 1) : MyChunk(r, size, RemapSize(file)) = 0}

\* what the ranks with an empty chunk read as tgt_col_h(0)
FirstReads(file, size) ==
  {f \in [1..size -> GarbageRow \cup {0}] :
     \A r \in 0..(size - 1) : r \notin EmptyRanks(file, size) => f[r + 1] = 0}

\* what reads of "col" and "S" outside the file deliver; it matters only when
\* some rank has an empty chunk
OobReads(file, size) ==
  IF EmptyRanks(file, size) = {} THEN {[col |-> 0, S |-> 0]} ELSE GarbageRead

\* set_remap_segments_from_file(remap_filename); a map is loaded once
LoadFromFile ==
  /\ status = "ok"
  /\ ~load_info.loaded
  /\ \/ \E first0 \in FirstReads(remap_file, num_ranks) :
        \E oob \in OobReads(remap_file, num_ranks) :
          LET r == set_remap_segments_from_file(gsmap, remap_file, num_ranks, my_rank,
                                                first0, oob)
          IN /\ gsmap' = r.map
             /\ status' = IF r.ok THEN "ok" ELSE "fatal"
             /\ added' = added \o r.segs
             /\ load_info' = r.info
     \/ /\ EmptyRanks(remap_file, num_ranks) # {}
        /\ gsmap' = gsmap
        /\ status' = "crash"
        /\ added' = added
        /\ load_info' = ChunkInfo(gsmap, remap_file, num_ranks, my_rank)
  /\ ForgetResults
  /\ UNCHANGED othervars
  /\ UNCHANGED <<dofs_arg, unique_first, num_ranks, my_rank, remap_file>>

InitFile ==
  /\ gsmap = GSMapFresh
  /\ status = "ok"
  /\ added = <<>>
  /\ applied = FALSE
  /\ source_data = <<>>
  /\ remapped_old = <<>>
  /\ remapped_data = <<>>
  /\ check_out = NoCheck
  /\ dofs_arg = NoDofsArg
  /\ unique_first = NoUnique
  /\ num_ranks \in CommSizes
  /\ my_rank \in 0..(num_ranks - 1)
  /\ remap_file \in UNION {Files(n_s) : n_s \in 0..MaxNs}
  /\ load_info = NoLoad
  /\ OtherIdle

NextFile ==
  \/ SetDofGids({1})
  \/ LoadFromFile
  \/ SetUniqueSourceDofs

SpecFile == InitFile /\ [][NextFile]_vars

----------------------------------------------------------------------------
(* The distribution of a block structured file over up to MaxComm ranks *)

InitBlock ==
  /\ gsmap = GSMapFresh
  /\ status = "ok"
  /\ added = <<>>
  /\ applied = FALSE
  /\ source_data = <<>>
  /\ remapped_old = <<>>
  /\ remapped_data = <<>>
  /\ check_out = NoCheck
  /\ dofs_arg = NoDofsArg
  /\ unique_first = NoUnique
  /\ num_ranks \in 1..MaxComm
  /\ my_rank \in 0..(num_ranks - 1)
  /\ remap_file \in {BlockFile(n_s, b) : n_s \in 0..MaxSize, b \in BlockLens}
  /\ load_info = NoLoad
  /\ OtherIdle

NextBlock ==
  \/ SetDofGids({1})
  \/ LoadFromFile
  \/ SetUniqueSourceDofs
  \/ ApplyRemap(BlockSrcVals, TRUE)

SpecBlock == InitBlock /\ [][NextBlock]_vars

----------------------------------------------------------------------------
(* set_remap_segments_from_file on every rank of the communicator: the steps  *)
(* of lines 165-230 that are collectives, and the local steps between them    *)

CollSizes == {1, 2, 3}

\* what one rank does, in program order; a collective returns on a rank once
\* every rank of the communicator has issued it
LoadProgram ==
  <<[coll |-> TRUE,  name |-> "all_gather my_chunk"],
    [coll |-> FALSE, name |-> "chunk_check"],
    [coll |-> FALSE, name |-> "read row"],
    [coll |-> FALSE, name |-> "group chunk"],
    [coll |-> TRUE,  name |-> "all_gather num_chunks"],
    [coll |-> TRUE,  name |-> "all_reduce remap_min_dof"],
    [coll |-> TRUE,  name |-> "allgatherv chunk_dof"],
    [coll |-> TRUE,  name |-> "allgatherv chunk_start"],
    [coll |-> TRUE,  name |-> "allgatherv chunk_len"]>>

\* rank_pc of a rank that is past line 230
LoadDone == [at |-> Len(LoadProgram) + 1, state |-> "run"]

Ranks == DOMAIN rank_pc

\* a rank reaches a collective and issues it
IssueCollective(r) ==
  /\ rank_pc[r].state = "run"
  /\ rank_pc[r].at <= Len(LoadProgram)
  /\ LoadProgram[rank_pc[r].at].coll
  /\ issued' = [issued EXCEPT ![r] = Append(@, LoadProgram[rank_pc[r].at].name)]
  /\ rank_pc' = [rank_pc EXCEPT ![r].state = "wait"]
  /\ UNCHANGED <<gsvars, mamvars>>

\* the collective a rank waits in returns: every rank has issued it, at the same
\* place of its sequence of collectives
CompleteCollective(r) ==
  /\ rank_pc[r].state = "wait"
  /\ \A o \in Ranks :
       /\ Len(issued[o]) >= Len(issued[r])
       /\ issued[o][Len(issued[r])] = issued[r][Len(issued[r])]
  /\ rank_pc' = [rank_pc EXCEPT ![r] = [at |-> @.at + 1, state |-> "run"]]
  /\ UNCHANGED <<issued, gsvars, mamvars>>

\* a step that is not a collective.  chunk_check is fatal on a mismatch; step 2
\* reads tgt_col_h(0), which on a rank with an empty chunk is outside the view:
\* the rank goes on with whatever it read, or the read faults
LocalStep(r) ==
  /\ rank_pc[r].state = "run"
  /\ rank_pc[r].at <= Len(LoadProgram)
  /\ ~LoadProgram[rank_pc[r].at].coll
  /\ LET name == LoadProgram[rank_pc[r].at].name
         chunks_glob == ChunksGlob(num_ranks, RemapSize(remap_file))
     IN \/ rank_pc' = [rank_pc EXCEPT ![r] =
                         IF name = "chunk_check"
                            /\ SumChunks(chunks_glob, num_ranks) # RemapSize(remap_file)
                         THEN [@ EXCEPT !.state = "fatal"]
                         ELSE [@ EXCEPT !.at = @ + 1]]
        \/ /\ name = "group chunk"
           /\ chunks_glob[r + 1] = 0
           /\ rank_pc' = [rank_pc EXCEPT ![r].state = "crash"]
  /\ UNCHANGED <<issued, gsvars, mamvars>>

InitColl ==
  /\ gsmap = GSMapFresh
  /\ status = "ok"
  /\ added = <<>>
  /\ applied = FALSE
  /\ source_data = <<>>
  /\ remapped_old = <<>>
  /\ remapped_data = <<>>
  /\ check_out = NoCheck
  /\ dofs_arg = NoDofsArg
  /\ unique_first = NoUnique
  /\ num_ranks \in CollSizes
  /\ my_rank = 0
  /\ remap_file \in {BlockFile(n_s, 1) : n_s \in 0..MaxNs}
  /\ load_info = NoLoad
  /\ rank_pc = [r \in 0..(num_ranks - 1) |-> [at |-> 1, state |-> "run"]]
  /\ issued = [r \in 0..(num_ranks - 1) |-> <<>>]
  /\ MamIdle

NextColl ==
  \/ \E r \in Ranks : IssueCollective(r)
  \/ \E r \in Ranks : CompleteCollective(r)
  \/ \E r \in Ranks : LocalStep(r)

\* every rank that can take a step eventually takes one
FairColl ==
  \A r \in 0..2 :
    WF_vars(r \in Ranks /\ (IssueCollective(r) \/ CompleteCollective(r) \/ LocalStep(r)))

SpecColl == InitColl /\ [][NextColl]_vars /\ FairColl

----------------------------------------------------------------------------
(* mam_coupling.hpp: modes, species, gases and the names of their fields.     *)
(* A C string is a sequence of characters; the byte 0 that ends it is Nul.    *)

MaxCalls == 2      \* number of calls of the mass mixing ratio name functions
SlotBytes == 8     \* bytes of a name slot that are modelled (the longest name and its end)

Nul == ""

num_aero_modes == 4
num_aero_species == 7
num_aero_gases == 6

Modes == 0..(num_aero_modes - 1)
SpeciesSlots == 0..(num_aero_species - 1)
Gases == 0..(num_aero_gases - 1)

\* mam4::AeroId as integers; None follows the last species
AeroSOA == 0
AeroSO4 == 1
AeroPOM == 2
AeroBC == 3
AeroNaCl == 4
AeroDST == 5
AeroMOM == 6
AeroNone == 7

\* mam4::mode_aero_species(mode, species): the species in slot `species` of the mode
ModeAeroSpeciesTable ==
  <<<<AeroSOA, AeroSO4, AeroPOM, AeroBC, AeroNaCl, AeroDST, AeroMOM>>,
    <<AeroSOA, AeroSO4, AeroNaCl, AeroMOM, AeroNone, AeroNone, AeroNone>>,
    <<AeroSOA, AeroSO4, AeroPOM, AeroBC, AeroNaCl, AeroDST, AeroMOM>>,
    <<AeroPOM, AeroBC, AeroMOM, AeroNone, AeroNone, AeroNone, AeroNone>>>>

mode_aero_species(mode, species) == ModeAeroSpeciesTable[mode + 1][species + 1]

aero_mode_name(mode) == <<<<"1">>, <<"2">>, <<"3">>, <<"4">>>>[mode + 1]

aero_species_name(species_id) ==
  <<<<"s", "o", "a">>, <<"s", "o", "4">>, <<"p", "o", "m">>, <<"b", "c">>,
    <<"n", "a", "c", "l">>, <<"d", "s", "t">>, <<"m", "o", "m">>>>[species_id + 1]

\* a zero initialised slot of static storage
EmptySlot == [i \in 1..SlotBytes |-> Nul]

\* gpu_strlen of a string literal
gpu_strlen(str) == Len(str)

\* the loop "for i < len: concatted[i + off] = src[i]" from index i on
RECURSIVE CopyInto(_, _, _, _)
CopyInto(concatted, src, off, i) ==
  IF i >= gpu_strlen(src) THEN concatted
  ELSE CopyInto([concatted EXCEPT ![i + off + 1] = src[i + 1]], src, off, i + 1)

\* concat_3_strings with the second string written over the first
concat_3_strings_overlap(s1, s2, s3, concatted) ==
  LET len1 == gpu_strlen(s1)
      len2 == gpu_strlen(s2)
      len3 == gpu_strlen(s3)
      c1 == CopyInto(concatted, s1, 0, 0)
      c2 == CopyInto(c1, s2, 0, 0)
      c3 == CopyInto(c2, s3, len1 + len2, 0)
  IN [c3 EXCEPT ![len1 + len2 + len3 + 1] = Nul]

concat_3_strings(s1, s2, s3, concatted) ==
  LET len1 == gpu_strlen(s1)
      len2 == gpu_strlen(s2)
      len3 == gpu_strlen(s3)
      c1 == CopyInto(concatted, s1, 0, 0)
      c2 == CopyInto(c1, s2, len1, 0)
      c3 == CopyInto(c2, s3, len1 + len2, 0)
  IN [c3 EXCEPT ![len1 + len2 + len3 + 1] = Nul]

\* the C string a char* points to: the bytes before the first Nul
RECURSIVE CStringFrom(_, _)
CStringFrom(bytes, i) ==
  IF i > Len(bytes) \/ bytes[i] = Nul THEN <<>>
  ELSE <<bytes[i]>> \o CStringFrom(bytes, i + 1)

CString(bytes) == CStringFrom(bytes, 1)

\* int_aero_mmr_field_name / cld_aero_mmr_field_name (infix "_a" / "_c") on the
\* storage `names`: the storage it leaves
aero_mmr_field_name(names, infix, mode, species) ==
  IF names[<<mode, species>>][1] = Nul
  THEN LET aero_id == mode_aero_species(mode, species)
       IN IF aero_id # AeroNone
          THEN [names EXCEPT ![<<mode, species>>] =
                  concat_3_strings(aero_species_name(aero_id), infix, aero_mode_name(mode), @)]
          ELSE names
  ELSE names

MmrInfix == [int |-> <<"_", "a">>, cld |-> <<"_", "c">>]

\* one call of int_aero_mmr_field_name (fn = "int") or cld_aero_mmr_field_name
\* (fn = "cld"); the caller reads the string it is returned
CallMmrFieldName ==
  /\ Len(name_calls) < MaxCalls
  /\ \E fn \in {"int", "cld"} : \E mode \in Modes : \E species \in SpeciesSlots :
       LET names == aero_mmr_field_name(mmr_names[fn], MmrInfix[fn], mode, species)
       IN /\ mmr_names' = [mmr_names EXCEPT ![fn] = names]
          /\ name_calls' = Append(name_calls,
                                  [fn |-> fn, mode |-> mode, species |-> species,
                                   result |-> CString(names[<<mode, species>>])])
  /\ UNCHANGED <<gsvars, collvars, nmr_names, thr, wet_atm, dry_atm, wet_aero, dry_aero,
                 progs, work, buffer, team, call>>

\* the GSMap variables when no map is in use
GsIdle ==
  /\ gsmap = GSMapFresh
  /\ status = "ok"
  /\ added = <<>>
  /\ applied = FALSE
  /\ source_data = <<>>
  /\ remapped_old = <<>>
  /\ remapped_data = <<>>
  /\ check_out = NoCheck
  /\ dofs_arg = NoDofsArg
  /\ unique_first = NoUnique
  /\ num_ranks = 1
  /\ my_rank = 0
  /\ remap_file = NoFile
  /\ load_info = NoLoad

InitNames ==
  /\ GsIdle
  /\ CollIdle
  /\ mmr_names = [int |-> [sl \in Modes \X SpeciesSlots |-> EmptySlot],
                  cld |-> [sl \in Modes \X SpeciesSlots |-> EmptySlot]]
  /\ name_calls = <<>>
  /\ nmr_names = <<>>
  /\ thr = <<>>
  /\ wet_atm = <<>>
  /\ dry_atm = <<>>
  /\ wet_aero = <<>>
  /\ dry_aero = <<>>
  /\ progs = <<>>
  /\ work = <<>>
  /\ buffer = <<>>
  /\ team = <<>>
  /\ call = NoCall

NextNames == CallMmrFieldName

SpecNames == InitNames /\ [][NextNames]_vars

----------------------------------------------------------------------------
(* int_aero_nmr_field_name / cld_aero_nmr_field_name called by several threads *)
(* for one mode: every read and write of a byte of the slot is a step          *)

Threads == {1, 2}

NmrPrefix == [int |-> <<"n", "u", "m", "_", "a">>, cld |-> <<"n", "u", "m", "_", "c">>]

\* the arguments s1 and s2 of the concat_2_strings call
NmrS1 == NmrPrefix[nmr_names.fn]
NmrS2 == aero_mode_name(nmr_names.mode)

\* if (!int_aero_nmr_names(mode)[0])
NmrTest(t) ==
  /\ thr[t].pc = "test"
  /\ thr' = [thr EXCEPT ![t].pc = IF nmr_names.bytes[1] = Nul THEN "copy1" ELSE "return"]
  /\ UNCHANGED nmr_names

\* concat_2_strings, first loop: concatted[i] = s1[i]
NmrCopy1(t) ==
  /\ thr[t].pc = "copy1"
  /\ IF thr[t].i < gpu_strlen(NmrS1)
     THEN /\ nmr_names' = [nmr_names EXCEPT !.bytes[thr[t].i + 1] = NmrS1[thr[t].i + 1]]
          /\ thr' = [thr EXCEPT ![t].i = @ + 1]
     ELSE /\ thr' = [thr EXCEPT ![t].pc = "copy2", ![t].i = 0]
          /\ UNCHANGED nmr_names

\* concat_2_strings, second loop: concatted[i + len1] = s2[i]
NmrCopy2(t) ==
  /\ thr[t].pc = "copy2"
  /\ IF thr[t].i < gpu_strlen(NmrS2)
     THEN /\ nmr_names' = [nmr_names EXCEPT
                             !.bytes[thr[t].i + gpu_strlen(NmrS1) + 1] = NmrS2[thr[t].i + 1]]
          /\ thr' = [thr EXCEPT ![t].i = @ + 1]
     ELSE /\ thr' = [thr EXCEPT ![t].pc = "end"]
          /\ UNCHANGED nmr_names

\* concat_2_strings: concatted[len1+len2] = 0
NmrEnd(t) ==
  /\ thr[t].pc = "end"
  /\ nmr_names' = [nmr_names EXCEPT !.bytes[gpu_strlen(NmrS1) + gpu_strlen(NmrS2) + 1] = Nul]
  /\ thr' = [thr EXCEPT ![t].pc = "return"]

\* return of the pointer to the slot; the caller reads the string it points to
NmrReturn(t) ==
  /\ thr[t].pc = "return"
  /\ thr' = [thr EXCEPT ![t].pc = "done", ![t].result = CString(nmr_names.bytes)]
  /\ UNCHANGED nmr_names

NmrFrame ==
  UNCHANGED <<gsvars, collvars, mmr_names, name_calls, wet_atm, dry_atm, wet_aero, dry_aero,
              progs, work, buffer, team, call>>

InitRace ==
  /\ GsIdle
  /\ CollIdle
  /\ mmr_names = <<>>
  /\ name_calls = <<>>
  /\ \E fn \in {"int", "cld"} : \E mode \in Modes :
       nmr_names = [fn |-> fn, mode |-> mode, bytes |-> EmptySlot]
  /\ thr = [t \in Threads |-> [pc |-> "test", i |-> 0, result |-> <<>>]]
  /\ wet_atm = <<>>
  /\ dry_atm = <<>>
  /\ wet_aero = <<>>
  /\ dry_aero = <<>>
  /\ progs = <<>>
  /\ work = <<>>
  /\ buffer = <<>>
  /\ team = <<>>
  /\ call = NoCall

NextRace ==
  \/ \E t \in Threads : NmrTest(t) /\ NmrFrame
  \/ \E t \in Threads : NmrCopy1(t) /\ NmrFrame
  \/ \E t \in Threads : NmrCopy2(t) /\ NmrFrame
  \/ \E t \in Threads : NmrEnd(t) /\ NmrFrame
  \/ \E t \in Threads : NmrReturn(t) /\ NmrFrame

SpecRace == InitRace /\ [][NextRace]_vars

----------------------------------------------------------------------------
(* Wet and dry mixing ratios.  A Real is an exact fraction <<n, d>>, d > 0;   *)
(* two fractions are the same number when RatEq holds.  A view is a function  *)
(* of <<column, level>>; a view that was never allocated (data() == nullptr)  *)
(* is NullView.                                                                *)

MaxCol == 2        \* number of columns
MaxLev == 2        \* number of levels (mam4::nlev)

Cols == 0..(MaxCol - 1)
Levs == 0..(MaxLev - 1)
Cells == Cols \X Levs

NullView == <<>>

RatEq(a, b) == a[1] * b[2] = b[1] * a[2]

\* PF::calculate_drymmr_from_wetmmr: wetmmr / (1 - qv_wet)
calculate_drymmr_from_wetmmr(wetmmr, qv_wet) ==
  <<wetmmr[1] * qv_wet[2], wetmmr[2] * (qv_wet[2] - qv_wet[1])>>

\* PF::calculate_wetmmr_from_drymmr: drymmr / (1 + qv_dry)
calculate_wetmmr_from_drymmr(drymmr, qv_dry) ==
  <<drymmr[1] * qv_dry[2], drymmr[2] * (qv_dry[2] + qv_dry[1])>>

\* what a read through a view without storage delivers
GarbageReal == <<7, 3>>

ReadView(view, c) == IF view = NullView THEN GarbageReal ELSE view[c]

\* the parallel_for over the levels of column i for one pair of views:
\* to(i,k) = F(from(i,k), qv(i,k))
ConvertColumn(to, from, qv, i, F(_, _)) ==
  [c \in DOMAIN to |-> IF c[1] = i THEN F(ReadView(from, c), qv[c]) ELSE to[c]]

\* the same for a view that is written only when it has storage
ConvertColumnIfData(to, from, qv, i, F(_, _)) ==
  IF to # NullView THEN ConvertColumn(to, from, qv, i, F) ELSE to

\* compute_dry_mixing_ratios(team, wet_atm, dry_atm, column_index): the dry
\* atmosphere it leaves
compute_dry_mixing_ratios_atm(wet, dry, i) ==
  [dry EXCEPT
     !.qv = ConvertColumn(@, wet.qv, wet.qv, i, calculate_drymmr_from_wetmmr),
     !.qc = ConvertColumn(@, wet.qc, wet.qv, i, calculate_drymmr_from_wetmmr),
     !.nc = ConvertColumn(@, wet.nc, wet.qv, i, calculate_drymmr_from_wetmmr),
     !.qi = ConvertColumn(@, wet.qi, wet.qv, i, calculate_drymmr_from_wetmmr),
     !.ni = ConvertColumn(@, wet.ni, wet.qv, i, calculate_drymmr_from_wetmmr)]

\* the loops over modes, species and gases shared by the two aerosol functions:
\* every view of `to` is computed from the same view of `from` with factor qv
ConvertAerosols(to, from, qv, i, F(_, _)) ==
  [int_aero_nmr |-> [m \in Modes |->
                       ConvertColumn(to.int_aero_nmr[m], from.int_aero_nmr[m], qv, i, F)],
   cld_aero_nmr |-> [m \in Modes |->
                       ConvertColumnIfData(to.cld_aero_nmr[m], from.cld_aero_nmr[m], qv, i, F)],
   int_aero_mmr |-> [sl \in Modes \X SpeciesSlots |->
                       ConvertColumnIfData(to.int_aero_mmr[sl], from.int_aero_mmr[sl], qv, i, F)],
   cld_aero_mmr |-> [sl \in Modes \X SpeciesSlots |->
                       ConvertColumnIfData(to.cld_aero_mmr[sl], from.cld_aero_mmr[sl], qv, i, F)],
   gas_mmr      |-> [g \in Gases |->
                       ConvertColumn(to.gas_mmr[g], from.gas_mmr[g], qv, i, F)]]

\* compute_dry_mixing_ratios(team, wet_atm, wet_aero, dry_aero, column_index)
compute_dry_mixing_ratios_aero(wet, wet_a, dry_a, i) ==
  ConvertAerosols(dry_a, wet_a, wet.qv, i, calculate_drymmr_from_wetmmr)

\* compute_wet_mixing_ratios with the factor taken from the wet atmosphere
compute_wet_mixing_ratios_wet_qv(dry, dry_a, wet_a, i) ==
  ConvertAerosols(wet_a, dry_a, wet_atm.qv, i, calculate_wetmmr_from_drymmr)

\* compute_wet_mixing_ratios(team, dry_atm, dry_aero, wet_aero, column_index)
compute_wet_mixing_ratios(dry, dry_a, wet_a, i) ==
  ConvertAerosols(wet_a, dry_a, dry.qv, i, calculate_wetmmr_from_drymmr)

\* the optional views of an AerosolState that have storage
DataViews(a) ==
  {<<"cld_aero_nmr", m>> : m \in {x \in Modes : a.cld_aero_nmr[x] # NullView}}
    \cup {<<"int_aero_mmr", sl>> : sl \in {x \in Modes \X SpeciesSlots : a.int_aero_mmr[x] # NullView}}
    \cup {<<"cld_aero_mmr", sl>> : sl \in {x \in Modes \X SpeciesSlots : a.cld_aero_mmr[x] # NullView}}

\* some view that is written has storage while the view it is computed from has none
ReadsNullView(to, from) == DataViews(to) \ DataViews(from) # {}

\* inputs: the values of a view follow a pattern p over the cells
QvVals == <<<<0, 1>>, <<1, 4>>, <<1, 2>>>>
MmrVals == <<<<1, 1>>, <<3, 2>>, <<5, 1>>>>
Patterns == {0, 1, 2}

QvView(p) == [c \in Cells |-> QvVals[((c[1] + c[2] + p) % 3) + 1]]
MmrView(p, n) == [c \in Cells |-> MmrVals[((c[1] + 2 * c[2] + p + n) % 3) + 1]]
ZeroView == [c \in Cells |-> <<0, 1>>]

\* which optional views an AerosolState has: all of them, those of the valid
\* (mode, species) pairs and all cloudborne numbers, or the interstitial ones of
\* the valid pairs only
Layouts == {"all", "valid", "interstitial"}

HasMass(layout, sl) == layout = "all" \/ mode_aero_species(sl[1], sl[2]) # AeroNone

AerosolStateOf(layout, v(_)) ==
  [int_aero_nmr |-> [m \in Modes |-> v(m)],
   cld_aero_nmr |-> [m \in Modes |-> IF layout = "interstitial" THEN NullView ELSE v(m + 1)],
   int_aero_mmr |-> [sl \in Modes \X SpeciesSlots |->
                       IF HasMass(layout, sl) THEN v(sl[1] + sl[2]) ELSE NullView],
   cld_aero_mmr |-> [sl \in Modes \X SpeciesSlots |->
                       IF HasMass(layout, sl) /\ layout # "interstitial"
                       THEN v(sl[1] + sl[2] + 1) ELSE NullView],
   gas_mmr      |-> [g \in Gases |-> v(g + 2)]]

MixFrame ==
  UNCHANGED <<gsvars, collvars, mmr_names, name_calls, nmr_names, thr, wet_atm, progs, work,
              buffer, team>>

\* compute_dry_mixing_ratios (atmosphere) for column i
ComputeDryAtm(i) ==
  /\ call.status = "ok"
  /\ call.phase[i] = 0
  /\ dry_atm' = compute_dry_mixing_ratios_atm(wet_atm, dry_atm, i)
  /\ call' = [call EXCEPT !.phase[i] = 1]
  /\ UNCHANGED <<wet_aero, dry_aero>>
  /\ MixFrame

\* compute_dry_mixing_ratios (aerosol) for column i; reading a view without
\* storage delivers anything or faults
ComputeDryAero(i) ==
  /\ call.status = "ok"
  /\ call.phase[i] = 1
  /\ \/ /\ dry_aero' = compute_dry_mixing_ratios_aero(wet_atm, wet_aero, dry_aero, i)
        /\ call' = [call EXCEPT !.phase[i] = 2]
     \/ /\ ReadsNullView(dry_aero, wet_aero)
        /\ dry_aero' = dry_aero
        /\ call' = [call EXCEPT !.status = "crash"]
  /\ UNCHANGED <<wet_aero, dry_atm>>
  /\ MixFrame

\* compute_wet_mixing_ratios for column i
ComputeWetAero(i) ==
  /\ call.status = "ok"
  /\ call.phase[i] = 2
  /\ \/ /\ wet_aero' = compute_wet_mixing_ratios(dry_atm, dry_aero, wet_aero, i)
        /\ call' = [call EXCEPT !.phase[i] = 3]
     \/ /\ ReadsNullView(wet_aero, dry_aero)
        /\ wet_aero' = wet_aero
        /\ call' = [call EXCEPT !.status = "crash"]
  /\ UNCHANGED <<dry_aero, dry_atm>>
  /\ MixFrame

InitMix ==
  /\ GsIdle
  /\ CollIdle
  /\ mmr_names = <<>>
  /\ name_calls = <<>>
  /\ nmr_names = <<>>
  /\ thr = <<>>
  /\ \E p \in Patterns :
       wet_atm = [qv |-> QvView(p), qc |-> MmrView(p, 0), nc |-> MmrView(p, 1),
                  qi |-> MmrView(p, 2), ni |-> MmrView(p, 0)]
  /\ dry_atm = [qv |-> ZeroView, qc |-> ZeroView, nc |-> ZeroView, qi |-> ZeroView,
                ni |-> ZeroView]
  /\ \E p \in Patterns : \E layout \in Layouts :
       wet_aero = AerosolStateOf(layout, LAMBDA n : MmrView(p, n))
  /\ \E layout \in Layouts : dry_aero = AerosolStateOf(layout, LAMBDA n : ZeroView)
  /\ progs = <<>>
  /\ work = <<>>
  /\ buffer = <<>>
  /\ team = <<>>
  /\ call = [op |-> "mixing ratios", status |-> "ok", phase |-> [i \in Cols |-> 0],
             wet_aero |-> wet_aero]

NextMix ==
  \/ \E i \in Cols : ComputeDryAtm(i)
  \/ \E i \in Cols : ComputeDryAero(i)
  \/ \E i \in Cols : ComputeWetAero(i)

SpecMix == InitMix /\ [][NextMix]_vars

----------------------------------------------------------------------------
(* Prognostics and the chemistry work arrays.  A Prognostics holds one column: *)
(* each of its views is a function of the level.                                *)

RECURSIVE Gcd(_, _)
Gcd(a, b) == IF b = 0 THEN a ELSE Gcd(b, a % b)

\* a Real in lowest terms
RatNorm(a) == <<a[1] \div Gcd(a[1], a[2]), a[2] \div Gcd(a[1], a[2])>>

gas_pcnst == 31
Cnsts == 0..(gas_pcnst - 1)

ModeNone == 4      \* mam4::ModeIndex::None
GasNone == 6       \* mam4::GasId::None

mode_for_cnst ==
  <<ModeNone, ModeNone, ModeNone, ModeNone, ModeNone, ModeNone,
    0, 0, 0, 0, 0, 0, 0, 0,
    1, 1, 1, 1, 1,
    2, 2, 2, 2, 2, 2, 2, 2,
    3, 3, 3, 3>>

\* a table whose Aitken mode names SO4 twice and SOA never
aero_for_cnst_duplicate_so4 ==
  <<AeroNone, AeroNone, AeroNone, AeroNone, AeroNone, AeroNone,
    AeroSO4, AeroPOM, AeroSOA, AeroBC, AeroDST, AeroNaCl, AeroMOM, AeroNone,
    AeroSO4, AeroSO4, AeroNaCl, AeroMOM, AeroNone,
    AeroDST, AeroNaCl, AeroSO4, AeroBC, AeroPOM, AeroSOA, AeroMOM, AeroNone,
    AeroPOM, AeroBC, AeroMOM, AeroNone>>

aero_for_cnst ==
  <<AeroNone, AeroNone, AeroNone, AeroNone, AeroNone, AeroNone,
    AeroSO4, AeroPOM, AeroSOA, AeroBC, AeroDST, AeroNaCl, AeroMOM, AeroNone,
    AeroSO4, AeroSOA, AeroNaCl, AeroMOM, AeroNone,
    AeroDST, AeroNaCl, AeroSO4, AeroBC, AeroPOM, AeroSOA, AeroMOM, AeroNone,
    AeroPOM, AeroBC, AeroMOM, AeroNone>>

gas_for_cnst ==
  <<0, 1, 2, 3, 4, 5,
    GasNone, GasNone, GasNone, GasNone, GasNone, GasNone, GasNone, GasNone,
    GasNone, GasNone, GasNone, GasNone, GasNone,
    GasNone, GasNone, GasNone, GasNone, GasNone, GasNone, GasNone, GasNone,
    GasNone, GasNone, GasNone, GasNone>>

\* mam4::aerosol_index_for_mode: the slot of the species within the mode, -1 if
\* the mode does not carry it
aerosol_index_for_mode(mode, aero_id) ==
  IF \E sp \in SpeciesSlots : mode_aero_species(mode, sp) = aero_id
  THEN CHOOSE sp \in SpeciesSlots : mode_aero_species(mode, sp) = aero_id
  ELSE -1

\* molecular weights (rounded, g/mol) of mam4::aero_species(a), of
\* mam4::gas_species(g) and of dry air
aero_species_mw == <<12, 115, 12, 12, 58, 135, 250>>
gas_species_mw == <<48, 34, 98, 64, 62, 12>>
mw_dry_air == 29

\* mam4::conversions::vmr_from_mmr and mmr_from_vmr
vmr_from_mmr(mmr, mw) == RatNorm(<<mmr[1] * mw_dry_air, mmr[2] * mw>>)
mmr_from_vmr(vmr, mw) == RatNorm(<<vmr[1] * mw, vmr[2] * mw_dry_air>>)

ReadLev(view, k) == IF view = NullView THEN GarbageReal ELSE view[k]

\* transfer_prognostics_to_work_arrays(progs, k, q, qqcw): the q and qqcw it fills
transfer_prognostics_to_work_arrays(pr, k) ==
  [q    |-> [i \in Cnsts |->
               IF gas_for_cnst[i + 1] # GasNone
               THEN ReadLev(pr.q_gas[gas_for_cnst[i + 1]], k)
               ELSE IF aero_for_cnst[i + 1] # AeroNone
               THEN ReadLev(pr.q_aero_i[<<mode_for_cnst[i + 1],
                              aerosol_index_for_mode(mode_for_cnst[i + 1], aero_for_cnst[i + 1])>>], k)
               ELSE ReadLev(pr.n_mode_i[mode_for_cnst[i + 1]], k)],
   qqcw |-> [i \in Cnsts |->
               IF gas_for_cnst[i + 1] # GasNone
               THEN ReadLev(pr.q_gas[gas_for_cnst[i + 1]], k)
               ELSE IF aero_for_cnst[i + 1] # AeroNone
               THEN ReadLev(pr.q_aero_c[<<mode_for_cnst[i + 1],
                              aerosol_index_for_mode(mode_for_cnst[i + 1], aero_for_cnst[i + 1])>>], k)
               ELSE ReadLev(pr.n_mode_c[mode_for_cnst[i + 1]], k)]]

\* the molecular weight the two conversions use for constituent i; 0 for a
\* modal number, which is copied
CnstMw(i) ==
  IF gas_for_cnst[i + 1] # GasNone THEN gas_species_mw[gas_for_cnst[i + 1] + 1]
  ELSE IF aero_for_cnst[i + 1] # AeroNone
  THEN aero_species_mw[aerosol_index_for_mode(mode_for_cnst[i + 1], aero_for_cnst[i + 1]) + 1]
  ELSE 0

\* convert_work_arrays_to_vmr(q, qqcw, vmr, vmrcw)
convert_work_arrays_to_vmr(q, qqcw) ==
  [vmr   |-> [i \in Cnsts |-> IF CnstMw(i) = 0 THEN q[i] ELSE vmr_from_mmr(q[i], CnstMw(i))],
   vmrcw |-> [i \in Cnsts |-> IF CnstMw(i) = 0 THEN qqcw[i] ELSE vmr_from_mmr(qqcw[i], CnstMw(i))]]

\* convert_work_arrays_to_mmr taking an aerosol's weight from its species id
convert_work_arrays_to_mmr_species_mw(vmr, vmrcw) ==
  LET mw(i) == IF gas_for_cnst[i + 1] = GasNone /\ aero_for_cnst[i + 1] # AeroNone
               THEN aero_species_mw[aero_for_cnst[i + 1] + 1] ELSE CnstMw(i)
  IN [q    |-> [i \in Cnsts |-> IF mw(i) = 0 THEN vmr[i] ELSE mmr_from_vmr(vmr[i], mw(i))],
      qqcw |-> [i \in Cnsts |-> IF mw(i) = 0 THEN vmrcw[i] ELSE mmr_from_vmr(vmrcw[i], mw(i))]]

\* convert_work_arrays_to_mmr(vmr, vmrcw, q, qqcw)
convert_work_arrays_to_mmr(vmr, vmrcw) ==
  [q    |-> [i \in Cnsts |-> IF CnstMw(i) = 0 THEN vmr[i] ELSE mmr_from_vmr(vmr[i], CnstMw(i))],
   qqcw |-> [i \in Cnsts |-> IF CnstMw(i) = 0 THEN vmrcw[i] ELSE mmr_from_vmr(vmrcw[i], CnstMw(i))]]

\* the last constituent of the loop that writes the gas, the (mode, slot) mass
\* or the modal number; -1 if none does
LastCnst(S) == IF S = {} THEN -1 ELSE CHOOSE i \in S : \A j \in S : j <= i
CnstOfGas(g) == LastCnst({i \in Cnsts : gas_for_cnst[i + 1] = g})
CnstOfMass(sl) ==
  LastCnst({i \in Cnsts : /\ gas_for_cnst[i + 1] = GasNone
                          /\ aero_for_cnst[i + 1] # AeroNone
                          /\ mode_for_cnst[i + 1] = sl[1]
                          /\ aerosol_index_for_mode(sl[1], aero_for_cnst[i + 1]) = sl[2]})
CnstOfNumber(m) ==
  LastCnst({i \in Cnsts : /\ gas_for_cnst[i + 1] = GasNone
                          /\ aero_for_cnst[i + 1] = AeroNone
                          /\ mode_for_cnst[i + 1] = m})

WriteLev(view, k, i, arr) ==
  IF i = -1 \/ view = NullView THEN view ELSE [view EXCEPT ![k] = arr[i]]

\* transfer_work_arrays_to_prognostics(q, qqcw, progs, k): the progs it leaves
transfer_work_arrays_to_prognostics(q, qqcw, pr, k) ==
  [n_mode_i |-> [m \in Modes |-> WriteLev(pr.n_mode_i[m], k, CnstOfNumber(m), q)],
   n_mode_c |-> [m \in Modes |-> WriteLev(pr.n_mode_c[m], k, CnstOfNumber(m), qqcw)],
   q_aero_i |-> [sl \in Modes \X SpeciesSlots |-> WriteLev(pr.q_aero_i[sl], k, CnstOfMass(sl), q)],
   q_aero_c |-> [sl \in Modes \X SpeciesSlots |-> WriteLev(pr.q_aero_c[sl], k, CnstOfMass(sl), qqcw)],
   q_gas    |-> [g \in Gases |-> WriteLev(pr.q_gas[g], k, CnstOfGas(g), q)]]

\* inputs: a populated Prognostics with positive values that differ between
\* levels and between the interstitial and the cloudborne side
LevView(p, n) == [k \in Levs |-> MmrVals[((2 * k + p + n) % 3) + 1]]

PrognosticsOf(layout, p) ==
  [n_mode_i |-> [m \in Modes |-> LevView(p, m)],
   n_mode_c |-> [m \in Modes |-> LevView(p, m + 1)],
   q_aero_i |-> [sl \in Modes \X SpeciesSlots |->
                   IF HasMass(layout, sl) THEN LevView(p, sl[1] + sl[2]) ELSE NullView],
   q_aero_c |-> [sl \in Modes \X SpeciesSlots |->
                   IF HasMass(layout, sl) THEN LevView(p, sl[1] + sl[2] + 1) ELSE NullView],
   q_gas    |-> [g \in Gases |-> LevView(p, g + 2)]]

\* what a work array holds before it is first written
UninitReals == {GarbageReal, <<0, 1>>}

WorkFrame ==
  UNCHANGED <<gsvars, collvars, mmr_names, name_calls, nmr_names, thr, wet_atm, dry_atm,
              wet_aero, dry_aero, buffer, team>>

TransferPrognosticsToWorkArrays(k) ==
  /\ call.phase = 0
  /\ work' = [work EXCEPT !.q = transfer_prognostics_to_work_arrays(progs, k).q,
                          !.qqcw = transfer_prognostics_to_work_arrays(progs, k).qqcw]
  /\ call' = [call EXCEPT !.phase = 1, !.k = k, !.before = progs, !.completed = FALSE]
  /\ UNCHANGED progs
  /\ WorkFrame

ConvertWorkArraysToVmr ==
  /\ call.phase = 1
  /\ work' = [work EXCEPT !.vmr = convert_work_arrays_to_vmr(work.q, work.qqcw).vmr,
                          !.vmrcw = convert_work_arrays_to_vmr(work.q, work.qqcw).vmrcw]
  /\ call' = [call EXCEPT !.phase = 2]
  /\ UNCHANGED progs
  /\ WorkFrame

ConvertWorkArraysToMmr ==
  /\ call.phase = 2
  /\ work' = [work EXCEPT !.q = convert_work_arrays_to_mmr(work.vmr, work.vmrcw).q,
                          !.qqcw = convert_work_arrays_to_mmr(work.vmr, work.vmrcw).qqcw]
  /\ call' = [call EXCEPT !.phase = 3]
  /\ UNCHANGED progs
  /\ WorkFrame

TransferWorkArraysToPrognostics(k) ==
  /\ call.phase = 3
  /\ progs' = transfer_work_arrays_to_prognostics(work.q, work.qqcw, progs, k)
  /\ call' = [call EXCEPT !.phase = 0, !.kw = k, !.completed = TRUE]
  /\ UNCHANGED work
  /\ WorkFrame

InitWork ==
  /\ GsIdle
  /\ CollIdle
  /\ mmr_names = <<>>
  /\ name_calls = <<>>
  /\ nmr_names = <<>>
  /\ thr = <<>>
  /\ wet_atm = <<>>
  /\ dry_atm = <<>>
  /\ wet_aero = <<>>
  /\ dry_aero = <<>>
  /\ \E layout \in {"all", "valid"} : \E p \in Patterns : progs = PrognosticsOf(layout, p)
  /\ \E u \in UninitReals :
       work = [q |-> [i \in Cnsts |-> u], qqcw |-> [i \in Cnsts |-> u],
               vmr |-> [i \in Cnsts |-> u], vmrcw |-> [i \in Cnsts |-> u]]
  /\ buffer = <<>>
  /\ team = <<>>
  /\ call = [op |-> "work arrays", phase |-> 0, k |-> 0, kw |-> 0, before |-> progs,
             completed |-> FALSE]

NextWork ==
  \/ \E k \in Levs : TransferPrognosticsToWorkArrays(k)
  \/ ConvertWorkArraysToVmr
  \/ ConvertWorkArraysToMmr
  \/ \E k \in Levs : TransferWorkArraysToPrognostics(k)

SpecWork == InitWork /\ [][NextWork]_vars

----------------------------------------------------------------------------
(* Per-column constructors.  EKAT_KERNEL_ASSERT_MSG ends the run with its      *)
(* message when its condition is false.                                        *)

\* the arrays atmosphere_for_column asserts, in the order of its assertions
AtmFields == <<"T_mid", "p_mid", "qv", "qc", "nc", "qi", "ni", "z_mid", "p_del", "p_int",
               "cldfrac", "w_updraft">>
AtmFieldSet == {AtmFields[n] : n \in DOMAIN AtmFields}

\* ekat::subview(view, column_index)
subview(view, c) == [k \in {x[2] : x \in DOMAIN view} |-> view[<<c, k>>]]

NoResult == <<>>

\* the assertions of atmosphere_for_column that fail
FailedAsserts(atm) == {n \in DOMAIN AtmFields : atm[AtmFields[n]] = NullView}

\* atmosphere_for_column(dry_atm, column_index) up to its return statement; the
\* value it builds, given what reading pblh(column_index) delivers
atmosphere_for_column(atm, c, pblh) ==
  IF FailedAsserts(atm) # {}
  THEN [status |-> "fatal",
        message |-> AtmFields[CHOOSE n \in FailedAsserts(atm) : \A j \in FailedAsserts(atm) : n <= j],
        result |-> NoResult]
  ELSE [status |-> "ok", message |-> "",
        result |-> [f \in AtmFieldSet \cup {"pblh"} |->
                      IF f = "pblh" THEN pblh ELSE subview(atm[f], c)]]

\* mam4::Prognostics progs(nlev): no view has storage
EmptyPrognostics ==
  [n_mode_i |-> [m \in Modes |-> NullView],
   n_mode_c |-> [m \in Modes |-> NullView],
   q_aero_i |-> [sl \in Modes \X SpeciesSlots |-> NullView],
   q_aero_c |-> [sl \in Modes \X SpeciesSlots |-> NullView],
   q_gas    |-> [g \in Gases |-> NullView]]

SubviewIfData(view, c) == IF view # NullView THEN subview(view, c) ELSE NullView

\* interstitial_aerosols_for_column that attaches a mass slice only for a valid
\* (mode, species) pair
interstitial_aerosols_for_column_valid_only(aero, c) ==
  IF \E m \in Modes : aero.int_aero_nmr[m] = NullView
  THEN [status |-> "fatal", message |-> "int_aero_nmr", result |-> NoResult]
  ELSE IF \E g \in Gases : aero.gas_mmr[g] = NullView
  THEN [status |-> "fatal", message |-> "gas_mmr", result |-> NoResult]
  ELSE [status |-> "ok", message |-> "",
        result |-> [EmptyPrognostics EXCEPT
                      !.n_mode_i = [m \in Modes |-> subview(aero.int_aero_nmr[m], c)],
                      !.q_aero_i = [sl \in Modes \X SpeciesSlots |->
                                      IF mode_aero_species(sl[1], sl[2]) # AeroNone
                                      THEN SubviewIfData(aero.int_aero_mmr[sl], c)
                                      ELSE NullView],
                      !.q_gas = [g \in Gases |-> subview(aero.gas_mmr[g], c)]]]

\* interstitial_aerosols_for_column(dry_aero, column_index)
interstitial_aerosols_for_column(aero, c) ==
  IF \E m \in Modes : aero.int_aero_nmr[m] = NullView
  THEN [status |-> "fatal", message |-> "int_aero_nmr", result |-> NoResult]
  ELSE IF \E g \in Gases : aero.gas_mmr[g] = NullView
  THEN [status |-> "fatal", message |-> "gas_mmr", result |-> NoResult]
  ELSE [status |-> "ok", message |-> "",
        result |-> [EmptyPrognostics EXCEPT
                      !.n_mode_i = [m \in Modes |-> subview(aero.int_aero_nmr[m], c)],
                      !.q_aero_i = [sl \in Modes \X SpeciesSlots |->
                                      SubviewIfData(aero.int_aero_mmr[sl], c)],
                      !.q_gas = [g \in Gases |-> subview(aero.gas_mmr[g], c)]]]

\* aerosols_for_column(dry_aero, column_index)
aerosols_for_column(aero, c) ==
  IF interstitial_aerosols_for_column(aero, c).status # "ok"
  THEN interstitial_aerosols_for_column(aero, c)
  ELSE IF \E m \in Modes : aero.cld_aero_nmr[m] = NullView
  THEN [status |-> "fatal", message |-> "dry_cld_aero_nmr", result |-> NoResult]
  ELSE [status |-> "ok", message |-> "",
        result |-> [interstitial_aerosols_for_column(aero, c).result EXCEPT
                      !.n_mode_c = [m \in Modes |-> subview(aero.cld_aero_nmr[m], c)],
                      !.q_aero_c = [sl \in Modes \X SpeciesSlots |->
                                      SubviewIfData(aero.cld_aero_mmr[sl], c)]]]

ColumnFrame ==
  UNCHANGED <<gsvars, collvars, mmr_names, name_calls, nmr_names, thr, wet_atm, dry_atm,
              wet_aero, dry_aero, progs, work, buffer, team>>

\* a call of atmosphere_for_column; reading pblh without storage delivers
\* anything or faults
AtmosphereForColumn(c) ==
  /\ \/ /\ dry_atm.pblh # NullView
        /\ call' = [op |-> "atmosphere_for_column", column |-> c]
                     @@ atmosphere_for_column(dry_atm, c, dry_atm.pblh[c])
     \/ /\ dry_atm.pblh = NullView
        /\ call' = [op |-> "atmosphere_for_column", column |-> c]
                     @@ atmosphere_for_column(dry_atm, c, GarbageReal)
     \/ /\ dry_atm.pblh = NullView
        /\ FailedAsserts(dry_atm) = {}
        /\ call' = [op |-> "atmosphere_for_column", column |-> c, status |-> "crash",
                    message |-> "", result |-> NoResult]
  /\ ColumnFrame

InterstitialAerosolsForColumn(c) ==
  /\ call' = [op |-> "interstitial_aerosols_for_column", column |-> c]
               @@ interstitial_aerosols_for_column(dry_aero, c)
  /\ ColumnFrame

AerosolsForColumn(c) ==
  /\ call' = [op |-> "aerosols_for_column", column |-> c] @@ aerosols_for_column(dry_aero, c)
  /\ ColumnFrame

\* inputs: a dry atmosphere in which the arrays of `missing` have no storage
DryAtmosphereOf(p, missing) ==
  [f \in AtmFieldSet \cup {"pblh"} |->
     IF f \in missing THEN NullView
     ELSE IF f = "pblh" THEN [c \in Cols |-> MmrVals[((c + p) % 3) + 1]]
     ELSE MmrView(p, CHOOSE n \in DOMAIN AtmFields : AtmFields[n] = f)]

\* the arrays the aerosol constructors assert
RequiredAerosolViews ==
  {<<"int_aero_nmr", m>> : m \in Modes} \cup {<<"cld_aero_nmr", m>> : m \in Modes}
    \cup {<<"gas_mmr", g>> : g \in Gases}

Without(aero, missing) ==
  [f \in DOMAIN aero |->
     [x \in DOMAIN aero[f] |-> IF <<f, x>> \in missing THEN NullView ELSE aero[f][x]]]

InitColumn ==
  /\ GsIdle
  /\ CollIdle
  /\ mmr_names = <<>>
  /\ name_calls = <<>>
  /\ nmr_names = <<>>
  /\ thr = <<>>
  /\ wet_atm = <<>>
  /\ wet_aero = <<>>
  /\ \E p \in Patterns :
       \/ /\ \E missing \in {ms \in SUBSET (AtmFieldSet \cup {"pblh"}) : Cardinality(ms) <= 2} :
               dry_atm = DryAtmosphereOf(p, missing)
          /\ dry_aero = AerosolStateOf("valid", LAMBDA n : MmrView(p, n))
       \/ /\ dry_atm = DryAtmosphereOf(p, {})
          /\ \E layout \in Layouts :
               \E missing \in {ms \in SUBSET RequiredAerosolViews : Cardinality(ms) <= 1} :
                 dry_aero = Without(AerosolStateOf(layout, LAMBDA n : MmrView(p, n)), missing)
  /\ progs = <<>>
  /\ work = <<>>
  /\ buffer = <<>>
  /\ team = <<>>
  /\ call = NoCall

NextColumn ==
  \/ \E c \in Cols : AtmosphereForColumn(c)
  \/ \E c \in Cols : InterstitialAerosolsForColumn(c)
  \/ \E c \in Cols : AerosolsForColumn(c)

SpecColumn == InitColumn /\ [][NextColumn]_vars

----------------------------------------------------------------------------
(* The scratch buffer.  Memory is addressed by offsets, counted in Reals from  *)
(* buffer_manager.get_memory(); a view with storage is its offset and its      *)
(* extents.                                                                     *)

MaxBufCol == 8     \* largest ncol
MaxBufLev == 8     \* largest nlev

RealSizes == {4, 8}        \* sizeof(Real), single or double precision

num_aero_tracers == 7 + 4 + 7 + 3
num_2d_scratch == 10
num_2d_mid == 8 + 2 * (num_aero_modes + num_aero_tracers) + num_aero_gases + num_2d_scratch
num_2d_iface == 1

\* buffer_size with the interface field counted as a midpoint field
buffer_size_no_iface_level(ncol, nlev, sizeofReal) ==
  sizeofReal * (num_2d_mid * ncol * nlev + num_2d_iface * ncol * nlev)

\* buffer_size(ncol, nlev)
buffer_size(ncol, nlev, sizeofReal) ==
  sizeofReal * (num_2d_mid * ncol * nlev + num_2d_iface * ncol * (nlev + 1))

\* the views of a Buffer
BufferViews ==
  {<<"z_mid">>, <<"dz">>, <<"qv_dry">>, <<"qc_dry">>, <<"nc_dry">>, <<"qi_dry">>, <<"ni_dry">>,
   <<"w_updraft">>, <<"z_iface">>}
    \cup {<<"dry_int_aero_nmr", m>> : m \in Modes} \cup {<<"dry_cld_aero_nmr", m>> : m \in Modes}
    \cup {<<"dry_int_aero_mmr", m, a>> : m \in Modes, a \in SpeciesSlots}
    \cup {<<"dry_cld_aero_mmr", m, a>> : m \in Modes, a \in SpeciesSlots}
    \cup {<<"dry_gas_mmr", g>> : g \in Gases}
    \cup {<<"scratch", i>> : i \in 0..(num_2d_scratch - 1)}

\* the initialiser list of view_2d_mid_ptrs
ModePtrs(m, n) ==
  [i \in 1..n |-> <<"dry_int_aero_mmr", m, i - 1>>] \o [i \in 1..n |-> <<"dry_cld_aero_mmr", m, i - 1>>]

MidPtrsInitializer ==
  <<<<"z_mid">>, <<"dz">>, <<"qv_dry">>, <<"qc_dry">>, <<"nc_dry">>, <<"qi_dry">>, <<"ni_dry">>,
    <<"w_updraft">>>>
    \o [i \in 1..4 |-> <<"dry_int_aero_nmr", i - 1>>]
    \o [i \in 1..4 |-> <<"dry_cld_aero_nmr", i - 1>>]
    \o ModePtrs(0, 7) \o ModePtrs(1, 4) \o ModePtrs(2, 7) \o ModePtrs(3, 3)
    \o [i \in 1..6 |-> <<"dry_gas_mmr", i - 1>>]

NullPtr == <<>>

\* view_2d_mid_ptrs after the loop that enters the scratch fields; an element
\* without initialiser is a null pointer
view_2d_mid_ptrs ==
  [j \in 1..num_2d_mid |->
     IF j - 1 >= num_2d_mid - num_2d_scratch
     THEN <<"scratch", j - 1 - (num_2d_mid - num_2d_scratch)>>
     ELSE IF j <= Len(MidPtrsInitializer) THEN MidPtrsInitializer[j] ELSE NullPtr]

\* mem before the j-th midpoint view is placed (mem += size() after each view)
RECURSIVE MemBefore(_, _, _)
MemBefore(j, ncol, nlev) == IF j = 1 THEN 0 ELSE MemBefore(j - 1, ncol, nlev) + ncol * nlev

\* init_buffer(buffer_manager, ncol, nlev, buffer): the Buffer it leaves and the
\* byte count it returns
init_buffer(ncol, nlev, sizeofReal) ==
  LET places(name) == {j \in 1..num_2d_mid : view_2d_mid_ptrs[j] = name}
      last(name) == CHOOSE j \in places(name) : \A i \in places(name) : i <= j
      iface == MemBefore(num_2d_mid, ncol, nlev) + ncol * nlev
      end == iface + ncol * (nlev + 1)
  IN [views |-> [name \in BufferViews |->
                   IF name = <<"z_iface">> THEN [off |-> iface, ext |-> <<ncol, nlev + 1>>]
                   ELSE IF places(name) = {} THEN NullView
                   ELSE [off |-> MemBefore(last(name), ncol, nlev), ext |-> <<ncol, nlev>>]],
      wsm_data |-> end,
      returned |-> end * sizeofReal]

BufferFrame ==
  UNCHANGED <<gsvars, collvars, mmr_names, name_calls, nmr_names, thr, wet_atm, dry_atm,
              wet_aero, dry_aero, progs, work, team>>

\* a Buffer is initialised once
InitBuffer(ncol, nlev) ==
  /\ ~call.done
  /\ buffer' = init_buffer(ncol, nlev, call.sizeofReal)
  /\ call' = [call EXCEPT !.ncol = ncol, !.nlev = nlev, !.done = TRUE]
  /\ BufferFrame

InitBuf ==
  /\ GsIdle
  /\ CollIdle
  /\ mmr_names = <<>>
  /\ name_calls = <<>>
  /\ nmr_names = <<>>
  /\ thr = <<>>
  /\ wet_atm = <<>>
  /\ dry_atm = <<>>
  /\ wet_aero = <<>>
  /\ dry_aero = <<>>
  /\ progs = <<>>
  /\ work = <<>>
  /\ buffer = [views |-> [name \in BufferViews |-> NullView], wsm_data |-> 0, returned |-> 0]
  /\ team = <<>>
  /\ \E sz \in RealSizes :
       call = [op |-> "init_buffer", sizeofReal |-> sz, ncol |-> 0, nlev |-> 0, done |-> FALSE]

NextBuf == \E ncol \in 1..MaxBufCol : \E nlev \in 1..MaxBufLev : InitBuffer(ncol, nlev)

SpecBuf == InitBuf /\ [][NextBuf]_vars

----------------------------------------------------------------------------
(* compute_vertical_layer_heights.  The threads of one team share the column's *)
(* arrays; each level of a parallel loop is run by the thread team.assign      *)
(* gives it to.  Heights are integers.                                          *)

TeamThreads == {1, 2}
Ifaces == 0..MaxLev

\* what dz, z_iface and z_mid hold before they are computed
StaleHeight == -1

\* PF::calculate_dz for one level
calculate_dz(pseudo_density, p_mid, T_mid, qv) == (pseudo_density * T_mid * (1 + qv)) \div p_mid

\* PF::calculate_z_int for one interface: z_surf at the bottom interface,
\* otherwise the sum of the thicknesses below it on top of z_surf
RECURSIVE calculate_z_int(_, _, _, _)
calculate_z_int(k, dz, z_surf, c) ==
  IF k = MaxLev THEN z_surf ELSE dz[<<c, k>>] + calculate_z_int(k + 1, dz, z_surf, c)

\* PF::calculate_z_mid for one level
calculate_z_mid(k, z_iface, c) == (z_iface[<<c, k>>] + z_iface[<<c, k + 1>>]) \div 2

\* team.team_barrier() lets the waiting threads go on at once
team_barrier_no_wait(b) == TRUE

\* team.team_barrier(): every thread of the team has arrived
team_barrier(b) == \A t \in TeamThreads : team.thr[t].stage = b

StageAfter(stage) ==
  CASE stage = "dz" -> "barrier 1"
    [] stage = "barrier 1" -> "z_int"
    [] stage = "z_int" -> "barrier 2"
    [] stage = "barrier 2" -> "z_mid"
    [] stage = "z_mid" -> "done"

\* the iterations of a stage that thread t runs
Iterations(stage, t) ==
  IF stage = "z_int"
  THEN {k \in Ifaces : team.assign[IF k = MaxLev THEN MaxLev - 1 ELSE k] = t}
  ELSE IF stage \in {"dz", "z_mid"} THEN {k \in Levs : team.assign[k] = t}
  ELSE {}

HeightsFrame ==
  UNCHANGED <<gsvars, collvars, mmr_names, name_calls, nmr_names, thr, wet_atm, wet_aero,
              dry_aero, progs, work, buffer>>

\* EKAT_KERNEL_ASSERT_MSG(column_index == team.league_rank(), ...)
EnterHeights(t) ==
  /\ call.status = "ok"
  /\ team.thr[t].stage = "start"
  /\ IF call.column = team.league_rank
     THEN /\ team' = [team EXCEPT !.thr[t] = [stage |-> "dz", todo |-> Iterations("dz", t)]]
          /\ call' = call
     ELSE /\ team' = team
          /\ call' = [call EXCEPT !.status = "fatal"]
  /\ UNCHANGED dry_atm
  /\ HeightsFrame

CalculateDz(t) ==
  /\ call.status = "ok"
  /\ team.thr[t].stage = "dz"
  /\ \E k \in team.thr[t].todo :
       /\ dry_atm' = [dry_atm EXCEPT !.dz[<<call.column, k>>] =
                        calculate_dz(dry_atm.p_del[<<call.column, k>>],
                                     dry_atm.p_mid[<<call.column, k>>],
                                     dry_atm.T_mid[<<call.column, k>>],
                                     dry_atm.qv[<<call.column, k>>])]
       /\ team' = [team EXCEPT !.thr[t].todo = @ \ {k}]
  /\ UNCHANGED call
  /\ HeightsFrame

CalculateZInt(t) ==
  /\ call.status = "ok"
  /\ team.thr[t].stage = "z_int"
  /\ \E k \in team.thr[t].todo :
       /\ dry_atm' = [dry_atm EXCEPT !.z_iface[<<call.column, k>>] =
                        calculate_z_int(k, dry_atm.dz, dry_atm.z_surf, call.column)]
       /\ team' = [team EXCEPT !.thr[t].todo = @ \ {k}]
  /\ UNCHANGED call
  /\ HeightsFrame

CalculateZMid(t) ==
  /\ call.status = "ok"
  /\ team.thr[t].stage = "z_mid"
  /\ \E k \in team.thr[t].todo :
       /\ dry_atm' = [dry_atm EXCEPT !.z_mid[<<call.column, k>>] =
                        calculate_z_mid(k, dry_atm.z_iface, call.column)]
       /\ team' = [team EXCEPT !.thr[t].todo = @ \ {k}]
  /\ UNCHANGED call
  /\ HeightsFrame

\* a thread that has run its iterations of a loop goes on to the statement
\* after the loop: a barrier, or the return
LeaveLoop(t) ==
  /\ call.status = "ok"
  /\ team.thr[t].stage \in {"dz", "z_int", "z_mid"}
  /\ team.thr[t].todo = {}
  /\ team' = [team EXCEPT !.thr[t].stage = StageAfter(@)]
  /\ UNCHANGED <<dry_atm, call>>
  /\ HeightsFrame

\* the threads waiting at barrier b go on into the next loop
TeamBarrier(b) ==
  /\ call.status = "ok"
  /\ b \in {"barrier 1", "barrier 2"}
  /\ \E t \in TeamThreads : team.thr[t].stage = b
  /\ team_barrier(b)
  /\ team' = [team EXCEPT !.thr = [t \in TeamThreads |->
                IF team.thr[t].stage = b
                THEN [stage |-> StageAfter(b), todo |-> Iterations(StageAfter(b), t)]
                ELSE team.thr[t]]]
  /\ UNCHANGED <<dry_atm, call>>
  /\ HeightsFrame

\* inputs of the column's levels
LevPattern(p, n) == [c \in Cells |-> 2 * (1 + ((c[1] + c[2] + p + n) % 3))]

InitHeights ==
  /\ GsIdle
  /\ CollIdle
  /\ mmr_names = <<>>
  /\ name_calls = <<>>
  /\ nmr_names = <<>>
  /\ thr = <<>>
  /\ wet_atm = <<>>
  /\ wet_aero = <<>>
  /\ dry_aero = <<>>
  /\ progs = <<>>
  /\ work = <<>>
  /\ buffer = <<>>
  /\ \E p \in Patterns : \E z_surf \in {0, 10} :
       dry_atm = [z_surf |-> z_surf,
                  p_del |-> LevPattern(p, 0),
                  T_mid |-> LevPattern(p, 1),
                  p_mid |-> [c \in Cells |-> 2],
                  qv    |-> [c \in Cells |-> c[2] % 2],
                  dz      |-> [c \in Cells |-> StaleHeight],
                  z_iface |-> [c \in Cols \X Ifaces |-> StaleHeight],
                  z_mid   |-> [c \in Cells |-> StaleHeight]]
  /\ \E assign \in [Levs -> TeamThreads] : \E r \in Cols :
       team = [league_rank |-> r, assign |-> assign,
               thr |-> [t \in TeamThreads |-> [stage |-> "start", todo |-> {}]]]
  /\ \E c \in Cols : call = [op |-> "compute_vertical_layer_heights", column |-> c, status |-> "ok"]

NextHeights ==
  \/ \E t \in TeamThreads : EnterHeights(t)
  \/ \E t \in TeamThreads : CalculateDz(t)
  \/ \E t \in TeamThreads : CalculateZInt(t)
  \/ \E t \in TeamThreads : CalculateZMid(t)
  \/ \E t \in TeamThreads : LeaveLoop(t)
  \/ \E b \in {"barrier 1", "barrier 2"} : TeamBarrier(b)

SpecHeights == InitHeights /\ [][NextHeights]_vars

----------------------------------------------------------------------------
(* Two callers running apply_remap on the same GSMap, each with its own       *)
(* source and target buffer; a step is the entry of a call, one iteration of  *)
(* its segment loop, or its final deep_copy                                    *)

ApplyCallers == {1, 2}

\* a host mirror shared by all callers
remapped_data_h_shared(t) == 1

\* remapped_data_h is a local of the call (line 487): the one of caller t
remapped_data_h(t) == t

\* the maps a caller has built with up to MaxAdds add_remap_segment calls and
\* resolved with set_unique_source_dofs
RECURSIVE AddAll(_, _)
AddAll(m, segs) ==
  IF segs = <<>> THEN m ELSE AddAll(add_remap_segment(m, Head(segs)).map, Tail(segs))

BuiltMaps ==
  {set_unique_source_dofs(AddAll(m, segs)) :
     m \in {GSMapFresh} \cup {set_dof_gids(GSMapFresh, d, 0) : d \in DofLists(0) \ {<<>>}},
     segs \in SeqsUpTo(SegInputs(TargetDofs, SourceDofs, Weights, {1}), MaxAdds)}

ResolvedMaps == {r.map : r \in {b \in BuiltMaps : b.ok}}

ApplyFrame ==
  UNCHANGED <<gsvars, collvars, mmr_names, name_calls, nmr_names, wet_atm, dry_atm, wet_aero,
              dry_aero, progs, work, buffer, team, call>>

\* lines 486-487: the early return, else the host mirror of the target buffer
ApplyEnter(t) ==
  /\ thr[t].pc = "call"
  /\ thr' = IF gsmap.m_num_dofs = 0
            THEN [thr EXCEPT ![t].pc = "done"]
            ELSE [thr EXCEPT ![remapped_data_h(t)].mirror =
                               IF thr[t].device THEN [i \in 1..Len(thr[t].tgt) |-> 0]
                               ELSE thr[t].tgt,
                             ![t].pc = "loop"]
  /\ ApplyFrame

\* lines 488-492: one iteration of the segment loop
ApplySegment(t) ==
  /\ thr[t].pc = "loop"
  /\ thr[t].iseg < gsmap.m_num_segments
  /\ LET seg == gsmap.m_map_segments[thr[t].iseg + 1]
         seg_dof_idx == seg.m_dof_idx
     IN thr' = [thr EXCEPT ![remapped_data_h(t)].mirror[seg_dof_idx + 1] =
                             apply_segment(seg, thr[t].src),
                           ![t].iseg = @ + 1]
  /\ ApplyFrame

\* line 493: deep_copy(remapped_data, remapped_data_h)
ApplyCopyBack(t) ==
  /\ thr[t].pc = "loop"
  /\ thr[t].iseg >= gsmap.m_num_segments
  /\ thr' = [thr EXCEPT ![t].tgt = thr[remapped_data_h(t)].mirror, ![t].pc = "done"]
  /\ ApplyFrame

InitApply ==
  /\ gsmap \in ResolvedMaps
  /\ status = "ok"
  /\ added = <<>>
  /\ applied = FALSE
  /\ source_data = <<>>
  /\ remapped_old = <<>>
  /\ remapped_data = <<>>
  /\ check_out = NoCheck
  /\ dofs_arg = NoDofsArg
  /\ unique_first = NoUnique
  /\ num_ranks = 1
  /\ my_rank = 0
  /\ remap_file = NoFile
  /\ load_info = NoLoad
  /\ CollIdle
  /\ mmr_names = <<>>
  /\ name_calls = <<>>
  /\ nmr_names = <<>>
  /\ \E device \in BOOLEAN :
     \E src \in [ApplyCallers -> SourceBuffers(gsmap, SrcVals)] :
     \E tgt \in TargetBuffers(gsmap, TgtVals) :
       thr = [t \in ApplyCallers |->
                [pc |-> "call", iseg |-> 0, device |-> device, src |-> src[t],
                 old |-> tgt, tgt |-> tgt, mirror |-> <<>>]]
  /\ wet_atm = <<>>
  /\ dry_atm = <<>>
  /\ wet_aero = <<>>
  /\ dry_aero = <<>>
  /\ progs = <<>>
  /\ work = <<>>
  /\ buffer = <<>>
  /\ team = <<>>
  /\ call = NoCall

NextApply ==
  \/ \E t \in ApplyCallers : ApplyEnter(t)
  \/ \E t \in ApplyCallers : ApplySegment(t)
  \/ \E t \in ApplyCallers : ApplyCopyBack(t)

SpecApply == InitApply /\ [][NextApply]_vars

----------------------------------------------------------------------------
(* The four conversion kernels run by a league of teams, one team per column  *)
(* (league_rank = column), the threads of a team taking the levels of         *)
(* TeamVectorRange(team, nlev) in any order.  A step is the entry of a team   *)
(* into the kernel or the lambda body for one level; a team has returned      *)
(* when it has run every level.                                               *)

Kernels == {"compute_updraft_velocities", "compute_dry_mixing_ratios (atmosphere)",
            "compute_dry_mixing_ratios (aerosol)", "compute_wet_mixing_ratios"}

\* a kernel that accepts every column index
kernel_assert_any_column(column_index, league_rank) == TRUE

\* EKAT_KERNEL_ASSERT_MSG(column_index == team.league_rank(), ...)
kernel_assert(column_index, league_rank) == column_index = league_rank

\* PF::calculate_density(pseudo_density, dz) = pseudo_density / dz / g and
\* PF::calculate_vertical_velocity(omega, rho) = -omega / (rho * g): the updraft
\* velocity -omega * dz / p_del
calculate_updraft(omega, p_del, dz) ==
  <<0 - (omega[1] * dz[1] * p_del[2]), omega[2] * dz[2] * p_del[1]>>

\* the lambda body of compute_updraft_velocities for the thread of level c[2]
updraft_at(wet, dry, c) ==
  [dry EXCEPT !.w_updraft[c] = calculate_updraft(wet.omega[c], dry.p_del[c], dry.dz[c])]

\* compute_updraft_velocities(team, wet_atm, dry_atm, column_index): all levels
compute_updraft_velocities(wet, dry, i) ==
  [dry EXCEPT !.w_updraft =
     [c \in DOMAIN @ |-> IF c[1] = i THEN calculate_updraft(wet.omega[c], dry.p_del[c], dry.dz[c])
                         ELSE @[c]]]

\* to(i,k) = F(from(i,k), qv(i,k)) for one cell c = <<i, k>>
ConvertCell(to, from, qv, c, F(_, _)) == [to EXCEPT ![c] = F(ReadView(from, c), qv[c])]

ConvertCellIfData(to, from, qv, c, F(_, _)) ==
  IF to # NullView THEN ConvertCell(to, from, qv, c, F) ELSE to

\* the lambda body of compute_dry_mixing_ratios (atmosphere) for one level
dry_atm_at(wet, dry, c) ==
  [dry EXCEPT
     !.qv = ConvertCell(@, wet.qv, wet.qv, c, calculate_drymmr_from_wetmmr),
     !.qc = ConvertCell(@, wet.qc, wet.qv, c, calculate_drymmr_from_wetmmr),
     !.nc = ConvertCell(@, wet.nc, wet.qv, c, calculate_drymmr_from_wetmmr),
     !.qi = ConvertCell(@, wet.qi, wet.qv, c, calculate_drymmr_from_wetmmr),
     !.ni = ConvertCell(@, wet.ni, wet.qv, c, calculate_drymmr_from_wetmmr)]

\* the lambda body of the two aerosol kernels for one level
aerosols_at(to, from, qv, c, F(_, _)) ==
  [int_aero_nmr |-> [m \in Modes |->
                       ConvertCell(to.int_aero_nmr[m], from.int_aero_nmr[m], qv, c, F)],
   cld_aero_nmr |-> [m \in Modes |->
                       ConvertCellIfData(to.cld_aero_nmr[m], from.cld_aero_nmr[m], qv, c, F)],
   int_aero_mmr |-> [sl \in Modes \X SpeciesSlots |->
                       ConvertCellIfData(to.int_aero_mmr[sl], from.int_aero_mmr[sl], qv, c, F)],
   cld_aero_mmr |-> [sl \in Modes \X SpeciesSlots |->
                       ConvertCellIfData(to.cld_aero_mmr[sl], from.cld_aero_mmr[sl], qv, c, F)],
   gas_mmr      |-> [g \in Gases |->
                       ConvertCell(to.gas_mmr[g], from.gas_mmr[g], qv, c, F)]]

KernelFrame ==
  UNCHANGED <<gsvars, collvars, mmr_names, name_calls, nmr_names, thr, wet_atm, progs, work,
              buffer>>

\* the kernel is entered by team i with the column index it was given
KernelEnter(i) ==
  /\ call.status = "ok"
  /\ team[i].pc = "call"
  /\ IF kernel_assert(team[i].column_index, i)
     THEN team' = [team EXCEPT ![i].pc = "run"] /\ call' = call
     ELSE team' = [team EXCEPT ![i].pc = "refused"] /\ call' = [call EXCEPT !.status = "fatal"]
  /\ UNCHANGED <<dry_atm, wet_aero, dry_aero>>
  /\ KernelFrame

\* team i has a thread run the body for level k
RunsLevel(kernel, i, k) ==
  /\ call.status = "ok"
  /\ call.kernel = kernel
  /\ team[i].pc = "run"
  /\ k \in team[i].left
  /\ team' = [team EXCEPT ![i].left = @ \ {k}]

UpdraftLevel(i, k) ==
  /\ RunsLevel("compute_updraft_velocities", i, k)
  /\ dry_atm' = updraft_at(wet_atm, dry_atm, <<team[i].column_index, k>>)
  /\ UNCHANGED <<wet_aero, dry_aero, call>>
  /\ KernelFrame

DryAtmLevel(i, k) ==
  /\ RunsLevel("compute_dry_mixing_ratios (atmosphere)", i, k)
  /\ dry_atm' = dry_atm_at(wet_atm, dry_atm, <<team[i].column_index, k>>)
  /\ UNCHANGED <<wet_aero, dry_aero, call>>
  /\ KernelFrame

\* reading a view without storage delivers anything or faults
DryAeroLevel(i, k) ==
  /\ RunsLevel("compute_dry_mixing_ratios (aerosol)", i, k)
  /\ \/ /\ dry_aero' = aerosols_at(dry_aero, wet_aero, wet_atm.qv, <<team[i].column_index, k>>,
                                   calculate_drymmr_from_wetmmr)
        /\ call' = call
     \/ /\ ReadsNullView(dry_aero, wet_aero)
        /\ dry_aero' = dry_aero
        /\ call' = [call EXCEPT !.status = "crash"]
  /\ UNCHANGED <<dry_atm, wet_aero>>
  /\ KernelFrame

WetAeroLevel(i, k) ==
  /\ RunsLevel("compute_wet_mixing_ratios", i, k)
  /\ \/ /\ wet_aero' = aerosols_at(wet_aero, dry_aero, dry_atm.qv, <<team[i].column_index, k>>,
                                   calculate_wetmmr_from_drymmr)
        /\ call' = call
     \/ /\ ReadsNullView(wet_aero, dry_aero)
        /\ wet_aero' = wet_aero
        /\ call' = [call EXCEPT !.status = "crash"]
  /\ UNCHANGED <<dry_atm, dry_aero>>
  /\ KernelFrame

\* the column indices the teams are given: the league rank, or for one team
\* another column
ColumnArgs ==
  {a \in [Cols -> Cols] : Cardinality({i \in Cols : a[i] # i}) <= 1}

\* the value pattern of the views: the values differ from cell to cell
KernelPatterns == {1}

InitKernel ==
  /\ GsIdle
  /\ CollIdle
  /\ mmr_names = <<>>
  /\ name_calls = <<>>
  /\ nmr_names = <<>>
  /\ thr = <<>>
  /\ progs = <<>>
  /\ work = <<>>
  /\ buffer = <<>>
  /\ \E kernel \in Kernels : \E p \in KernelPatterns : \E lw, ld \in Layouts : \E a \in ColumnArgs :
       /\ kernel \in {"compute_updraft_velocities", "compute_dry_mixing_ratios (atmosphere)"}
            => lw = "all" /\ ld = "all"
       /\ kernel = "compute_dry_mixing_ratios (aerosol)" => lw # "valid"
       /\ kernel = "compute_wet_mixing_ratios" => ld # "valid"
       /\ wet_atm = [qv |-> QvView(p), qc |-> MmrView(p, 0), nc |-> MmrView(p, 1),
                     qi |-> MmrView(p, 2), ni |-> MmrView(p, 0), omega |-> MmrView(p, 1)]
       /\ dry_atm = [qv |-> IF kernel = "compute_wet_mixing_ratios" THEN QvView(p) ELSE ZeroView,
                     qc |-> ZeroView, nc |-> ZeroView, qi |-> ZeroView, ni |-> ZeroView,
                     p_del |-> MmrView(p, 2), dz |-> MmrView(p, 0), w_updraft |-> ZeroView]
       /\ wet_aero = AerosolStateOf(lw, LAMBDA n : IF kernel = "compute_wet_mixing_ratios"
                                                  THEN ZeroView ELSE MmrView(p, n))
       /\ dry_aero = AerosolStateOf(ld, LAMBDA n : IF kernel = "compute_wet_mixing_ratios"
                                                  THEN MmrView(p, n) ELSE ZeroView)
       /\ team = [i \in Cols |-> [pc |-> "call", column_index |-> a[i], left |-> Levs]]
       /\ call = [op |-> "kernel", kernel |-> kernel, status |-> "ok",
                  dry_atm |-> dry_atm, wet_aero |-> wet_aero, dry_aero |-> dry_aero]

NextKernel ==
  \/ \E i \in Cols : KernelEnter(i)
  \/ \E i \in Cols : \E k \in Levs : UpdraftLevel(i, k)
  \/ \E i \in Cols : \E k \in Levs : DryAtmLevel(i, k)
  \/ \E i \in Cols : \E k \in Levs : DryAeroLevel(i, k)
  \/ \E i \in Cols : \E k \in Levs : WetAeroLevel(i, k)

SpecKernel == InitKernel /\ [][NextKernel]_vars

----------------------------------------------------------------------------
(* Properties *)

\* s[1] + ... + s[Len(s)]
RECURSIVE Sum(_)
Sum(s) == IF Len(s) = 0 THEN 0 ELSE s[Len(s)] + Sum(SubSeq(s, 1, Len(s) - 1))

Segs == gsmap.m_map_segments

\* the entries of the segments added for DOF d, in call order: field f of each
RECURSIVE AddedFor(_, _, _)
AddedFor(hist, d, f) ==
  IF hist = <<>> THEN <<>>
  ELSE (IF Head(hist).m_dof = d THEN Head(hist)[f] ELSE <<>>) \o AddedFor(Tail(hist), d, f)

AddedDofs == {added[i].m_dof : i \in 1..Len(added)}

StrictlyAscending(s) == \A i, j \in 1..Len(s) : i < j => s[i] < s[j]

SourceDofsOf(segs) == UNION {Range(segs[k].m_source_dofs) : k \in 1..Len(segs)}

AllLocal(m) ==
  \A k \in 1..Len(m.m_map_segments) : m.m_map_segments[k].m_dof \in Range(m.m_dofs_gids)

\* C1: when the unique source DOFs of the map are resolved, apply_remap leaves in
\* remapped_data, at the m_dof_idx of every segment s, the sum over i < s.length
\* of s.weights[i] * source_data[s.source_idx[i]].
C1_ApplyRemapWeightedSum ==
  (applied /\ gsmap.m_unique_set) =>
    \A k \in 1..gsmap.m_num_segments :
      LET s == Segs[k]
      IN remapped_data[s.m_dof_idx + 1] =
           Sum([i \in 1..s.m_length |-> s.m_weights[i] * source_data[s.m_source_idx[i] + 1]])

\* C1 witness: apply_remap ran on a resolved map with a two entry segment whose
\* entries read different source elements holding different values.
C1_Witness ==
  /\ applied
  /\ gsmap.m_unique_set
  /\ status = "ok"
  /\ \E k \in 1..gsmap.m_num_segments :
       /\ Segs[k].m_length = 2
       /\ Segs[k].m_weights[1] # Segs[k].m_weights[2]
       /\ Segs[k].m_source_idx[1] # Segs[k].m_source_idx[2]
       /\ source_data[1] # source_data[2]
       /\ remapped_data[Segs[k].m_dof_idx + 1] # remapped_old[Segs[k].m_dof_idx + 1]

\* C2: after any sequence of add_remap_segment calls the map holds one segment per
\* distinct target DOF added, m_num_segments is that count, and the segment of a
\* DOF holds the source DOFs and weights of the segments added for it,
\* concatenated in call order.
C2_OneSegmentPerDof ==
  /\ gsmap.m_num_segments = Cardinality(AddedDofs)
  /\ Len(Segs) = Cardinality(AddedDofs)
  /\ \A d \in AddedDofs :
       \E k \in 1..Len(Segs) :
         /\ Segs[k].m_dof = d
         /\ \A j \in 1..Len(Segs) : Segs[j].m_dof = d => j = k
         /\ Segs[k].m_source_dofs = AddedFor(added, d, "m_source_dofs")
         /\ Segs[k].m_weights = AddedFor(added, d, "m_weights")
         /\ Segs[k].m_length = Sum([i \in 1..Len(added) |->
                                      IF added[i].m_dof = d THEN added[i].m_length ELSE 0])

\* C2 witness: two segments with different entries were added for the same DOF.
C2_Witness ==
  /\ Len(added) = 2
  /\ added[1].m_dof = added[2].m_dof
  /\ added[1].m_length = 1
  /\ added[2].m_length = 1
  /\ added[1].m_source_dofs # added[2].m_source_dofs
  /\ added[1].m_weights # added[2].m_weights
  /\ gsmap.m_num_segments = 1

\* C3: after set_unique_source_dofs on a map whose segments all target local DOFs,
\* m_unique_dofs is strictly ascending, holds exactly the source DOFs of the
\* segments, and every m_source_idx entry is an index into it at which the
\* entry's source DOF stands.
C3_UniqueSortedAndIndexed ==
  (gsmap.m_unique_set /\ AllLocal(gsmap)) =>
    /\ StrictlyAscending(gsmap.m_unique_dofs)
    /\ Range(gsmap.m_unique_dofs) = SourceDofsOf(Segs)
    /\ \A k \in 1..Len(Segs) : \A i \in 1..Segs[k].m_length :
         /\ Segs[k].m_source_idx[i] >= 0
         /\ Segs[k].m_source_idx[i] < Len(gsmap.m_unique_dofs)
         /\ gsmap.m_unique_dofs[Segs[k].m_source_idx[i] + 1] = Segs[k].m_source_dofs[i]

\* C3 witness: the unique set was computed for segments that name the larger
\* source DOF first and share a source DOF.
C3_Witness ==
  /\ gsmap.m_unique_set
  /\ status = "ok"
  /\ Len(Segs) = 2
  /\ Segs[1].m_source_dofs = <<1>>
  /\ Segs[2].m_source_dofs = <<0>>
  /\ gsmap.m_unique_dofs = <<0, 1>>
  /\ Segs[1].m_source_idx = <<1>>

\* the map's derived data agree with its segments and local DOFs
Resolved(m) ==
  /\ StrictlyAscending(m.m_unique_dofs)
  /\ Range(m.m_unique_dofs) = SourceDofsOf(m.m_map_segments)
  /\ \A k \in 1..Len(m.m_map_segments) :
       LET s == m.m_map_segments[k]
       IN /\ s.m_dof_idx >= 0
          /\ s.m_dof_idx < Len(m.m_dofs_gids)
          /\ m.m_dofs_gids[s.m_dof_idx + 1] = s.m_dof
          /\ \A i \in 1..s.m_length :
               /\ s.m_source_idx[i] >= 0
               /\ s.m_source_idx[i] < Len(m.m_unique_dofs)
               /\ m.m_unique_dofs[s.m_source_idx[i] + 1] = s.m_source_dofs[i]

\* C8: once set_unique_source_dofs has run, every add_remap_segment that returns
\* normally leaves m_unique_dofs equal to the sorted distinct source DOFs of the
\* current segments and every m_source_idx and m_dof_idx resolved against the
\* current unique list and local DOF list.
C8_CacheNeverStale ==
  [][(gsmap.m_unique_set /\ added' # added /\ status' = "ok") => Resolved(gsmap')]_vars

\* C8 witness: after set_unique_source_dofs ran on a one segment map, a segment
\* for the same DOF with a source DOF not seen before was added and merged.
C8_Witness ==
  /\ unique_first.called
  /\ unique_first.adds = 1
  /\ Len(added) = 2
  /\ status = "ok"
  /\ added[1].m_dof = added[2].m_dof
  /\ added[1].m_source_dofs = <<1>>
  /\ added[2].m_source_dofs = <<0>>
  /\ gsmap.m_unique_dofs = <<0, 1>>

\* C9: apply_remap on a map with no local DOFs returns normally and leaves every
\* element of remapped_data as it was, whatever segments the map holds.
C9_NoDofsNoChange ==
  (applied /\ gsmap.m_num_dofs = 0) =>
    /\ remapped_data = remapped_old
    /\ status # "crash"

\* C9 witness: apply_remap ran on a map without local DOFs that holds a segment
\* with an entry.
C9_Witness ==
  /\ applied
  /\ gsmap.m_num_dofs = 0
  /\ gsmap.m_num_segments >= 1
  /\ Segs[1].m_length = 1
  /\ Len(remapped_data) > 0
  /\ status = "ok"

\* C10: GSSegment::check returns true exactly when the weights of the segment sum
\* to 1.0 within the tolerance, |sum - 1| < 100 epsilon, for segments as
\* constructed and as merged by add_remap_segment.
C10_CheckIsConservation ==
  \A k \in 1..Len(check_out.seg_checks) :
    LET sum == Sum(Segs[k].m_weights)
    IN check_out.seg_checks[k] <=> (sum - One < Tol /\ One - sum < Tol)

\* C10 witness: check returned true for a segment merged from the partial runs
\* {0.25, 0.25} and {0.5}.
C10_Witness ==
  /\ check_out.seg_checks = <<TRUE>>
  /\ Len(added) = 2
  /\ Segs[1].m_weights = <<Quarter, Quarter, Half>>

\* C6: rank r reads the range [start_r, start_r + chunk_r) with chunk_r =
\* floor(n_s/R) + 1 on the n_s mod R lowest ranks and floor(n_s/R) on the others
\* and start_r the sum of the lower ranks' chunks; the ranges are disjoint and
\* cover [0, n_s), and the chunk sum check of the load passes.
C6_ChunkPartition ==
  load_info.loaded =>
    LET n == Len(remap_file.row)
        q == n \div num_ranks
        rem == n % num_ranks
        chunk(r) == q + (IF r < rem THEN 1 ELSE 0)
        start(r) == Sum([i \in 1..r |-> load_info.chunks_glob[i]])
    IN /\ load_info.my_chunk = chunk(my_rank)
       /\ load_info.my_start = start(my_rank)
       /\ \A r \in 0..(num_ranks - 1) : load_info.chunks_glob[r + 1] = chunk(r)
       /\ \A i \in 0..(n - 1) :
            Cardinality({r \in 0..(num_ranks - 1) :
                           start(r) <= i /\ i < start(r) + load_info.chunks_glob[r + 1]}) = 1
       /\ \A r \in 0..(num_ranks - 1) : start(r) + load_info.chunks_glob[r + 1] <= n
       /\ load_info.chunk_check = n

\* C6 witness: a load on a rank that gets no extra entry, after ranks that do.
C6_Witness ==
  /\ load_info.complete
  /\ status = "ok"
  /\ Len(remap_file.row) % num_ranks # 0
  /\ Len(remap_file.row) > num_ranks
  /\ my_rank >= Len(remap_file.row) % num_ranks
  /\ load_info.my_start > 0
  /\ gsmap.m_num_segments > 0

\* every value of the sequence occupies one run of consecutive positions
RowsContiguous(row) ==
  \A i, j \in 1..Len(row) : (i < j /\ row[i] = row[j]) => \A k \in i..j : row[k] = row[i]

\* the smallest id of "row"
FileMinRow(file) == CHOOSE x \in Range(file.row) : \A y \in Range(file.row) : x <= y

\* the file positions of the entries of target DOF id v, in file order
EntryIdx(file, v) == SelectSeq([i \in 1..Len(file.row) |-> i], LAMBDA i : file.row[i] = v)

\* the zero based local DOF d is a target DOF of the file
OccursInFile(file, d) ==
  /\ Len(file.row) > 0
  /\ (d + FileMinRow(file)) \in Range(file.row)

\* C4: after set_remap_segments_from_file on a file whose row entries are
\* contiguous per target DOF, the map holds exactly one segment for each local
\* DOF that occurs in the file and none for any other DOF; the segment's length
\* is the number of file entries of the DOF and its source DOFs and weights are
\* those entries' col (zero based) and S values in file order.
C4_SegmentsMatchFile ==
  (load_info.loaded /\ RowsContiguous(remap_file.row)) =>
    LET owned == Range(load_info.dofs_gids)
    IN /\ \A d \in owned :
            OccursInFile(remap_file, d) =>
              LET min == FileMinRow(remap_file)
                  idx == EntryIdx(remap_file, d + min)
              IN /\ Cardinality({k \in 1..Len(Segs) : Segs[k].m_dof = d}) = 1
                 /\ \A k \in 1..Len(Segs) :
                      Segs[k].m_dof = d =>
                        /\ Segs[k].m_length = Len(idx)
                        /\ Segs[k].m_source_dofs =
                             [i \in 1..Len(idx) |-> remap_file.col[idx[i]] - min]
                        /\ Segs[k].m_weights = [i \in 1..Len(idx) |-> remap_file.S[idx[i]]]
       /\ \A k \in 1..Len(Segs) :
            /\ Segs[k].m_dof \in owned
            /\ OccursInFile(remap_file, Segs[k].m_dof)

\* the weights of every target DOF of the file sum to 1.0
FileWeightsSumToOne(file) ==
  \A v \in Range(file.row) :
    LET idx == EntryIdx(file, v)
    IN Sum([i \in 1..Len(idx) |-> file.S[idx[i]]]) = One

\* C5: with the segments loaded from a file whose weights sum to 1.0 per target
\* DOF, whatever the number of ranks, apply_remap on a source that is uniformly v
\* leaves v at every local DOF that is a target DOF of the file.
C5_UniformSourceReproduced ==
  ( /\ applied
    /\ load_info.loaded
    /\ gsmap.m_dofs_set
    /\ load_info.dofs_gids = gsmap.m_dofs_gids
    /\ gsmap.m_unique_set
    /\ FileWeightsSumToOne(remap_file) ) =>
    \A j \in 1..gsmap.m_num_dofs :
      OccursInFile(remap_file, gsmap.m_dofs_gids[j]) =>
        \E v \in BlockSrcVals : remapped_data[j] = v * One

\* C7: set_dof_gids stores gid - min_dof, and every target and source DOF id of
\* the segments built from a remap file is zero based, hence not negative.  The
\* file part is stated for loads in which every rank has a non-empty chunk.
C7_ZeroBasedIds ==
  /\ (dofs_arg.called /\ gsmap.m_dofs_set) =>
       gsmap.m_dofs_gids =
         [i \in 1..Len(dofs_arg.dofs_gids) |-> dofs_arg.dofs_gids[i] - dofs_arg.min_dof]
  /\ (load_info.complete /\ EmptyRanks(remap_file, num_ranks) = {}) =>
       \A k \in 1..Len(Segs) :
         /\ Segs[k].m_dof >= 0
         /\ \A i \in 1..Segs[k].m_length : Segs[k].m_source_dofs[i] >= 0

\* the segments of m whose weights do not sum to 1.0 within the tolerance
BadSegs(m) ==
  {k \in 1..Len(m.m_map_segments) :
     LET sum == Sum(m.m_map_segments[k].m_weights)
     IN sum - One >= Tol \/ One - sum >= Tol}

\* a step of check() on a map with local DOFs and a segment that is not
\* conservative names the DOF of the first such segment and leaves the map as it is
CheckReportsFirstBad ==
  (check_out' # check_out /\ gsmap.m_dofs_set /\ BadSegs(gsmap) # {}) =>
    /\ check_out'.res = "segment"
    /\ \E k \in BadSegs(gsmap) :
         /\ \A j \in BadSegs(gsmap) : k <= j
         /\ check_out'.dof = gsmap.m_map_segments[k].m_dof
    /\ gsmap' = gsmap

\* adding a segment that is not conservative is not an error
AddDoesNotCheck ==
  (added' # added /\ ~gsmap.m_unique_set) => status' = "ok"

Collectives == SelectSeq(LoadProgram, LAMBDA st : st.coll)

\* every rank has issued a prefix of the same sequence of collectives
SameCollectives ==
  \A r \in Ranks :
    /\ Len(issued[r]) <= Len(Collectives)
    /\ \A i \in 1..Len(issued[r]) : issued[r][i] = Collectives[i].name

\* C11: every rank issues the same sequence of collectives whatever its chunk
\* holds, no rank waits forever in a collective, and the load terminates on every
\* rank.
C11_LoadTerminates ==
  /\ []SameCollectives
  /\ <>(\A r \in Ranks : rank_pc[r] = LoadDone)

\* the name the registry gives the slot (mode, species): "" when the slot holds
\* no species of the mode
RegistryName(infix, mode, species) ==
  IF mode_aero_species(mode, species) = AeroNone THEN <<>>
  ELSE aero_species_name(mode_aero_species(mode, species)) \o infix \o aero_mode_name(mode)

\* C13: every call of int_aero_mmr_field_name / cld_aero_mmr_field_name returns
\* "<species>_a<mode>" / "<species>_c<mode>" for a valid slot and "" for an
\* invalid one; repeated calls for a slot, in any order with calls for other
\* slots, return the same string, and the slot of an invalid pair stays empty.
C13_MmrNamesFromRegistry ==
  /\ \A i \in 1..Len(name_calls) :
       LET c == name_calls[i]
       IN /\ c.result = RegistryName(MmrInfix[c.fn], c.mode, c.species)
          /\ \A j \in 1..Len(name_calls) :
               LET d == name_calls[j]
               IN (d.fn = c.fn /\ d.mode = c.mode /\ d.species = c.species) =>
                    d.result = c.result
  /\ \A fn \in DOMAIN mmr_names : \A sl \in DOMAIN mmr_names[fn] :
       mode_aero_species(sl[1], sl[2]) = AeroNone => mmr_names[fn][sl] = EmptySlot

\* C13 witness: the second call for a valid slot returned the memoized name, and
\* it is the name of the species with the longest name.
C13_Witness ==
  /\ Len(name_calls) = 2
  /\ name_calls[1] = name_calls[2]
  /\ name_calls[2].result = <<"n", "a", "c", "l", "_", "c", "2">>

\* "num_a<mode>" / "num_c<mode>" for the slot the threads call for
NmrCanonical == NmrPrefix[nmr_names.fn] \o aero_mode_name(nmr_names.mode)

\* C20: when several threads make the first call for one slot at the same time,
\* every byte of the slot only ever holds what every writer writes there, and
\* every caller reads the complete name from the pointer it was returned.
C20_FirstAccessRaceBenign ==
  /\ \A i \in 1..SlotBytes :
       \/ nmr_names.bytes[i] = Nul
       \/ i <= Len(NmrCanonical) /\ nmr_names.bytes[i] = NmrCanonical[i]
  /\ \A t \in Threads : thr[t].pc = "done" => thr[t].result = NmrCanonical

\* the views of an AerosolState as one function of their names
ViewsOf(a) ==
  [n \in {<<"int_aero_nmr", m>> : m \in Modes} \cup {<<"cld_aero_nmr", m>> : m \in Modes}
           \cup {<<"int_aero_mmr", sl>> : sl \in Modes \X SpeciesSlots}
           \cup {<<"cld_aero_mmr", sl>> : sl \in Modes \X SpeciesSlots}
           \cup {<<"gas_mmr", g>> : g \in Gases} |->
     a[n[1]][n[2]]]

\* C14: for every column on which compute_dry_mixing_ratios (atmosphere, then
\* aerosol) and then compute_wet_mixing_ratios have run, every level and every
\* aerosol number, mass and gas view that has storage in the wet and in the dry
\* state, the wet mixing ratio is again the number it was before.
C14_DryWetRoundTrip ==
  \A i \in Cols :
    (call.phase[i] = 3) =>
      \A n \in DOMAIN ViewsOf(wet_aero) :
        (ViewsOf(wet_aero)[n] # NullView /\ ViewsOf(dry_aero)[n] # NullView) =>
          \A k \in Levs :
            RatEq(ViewsOf(wet_aero)[n][<<i, k>>], ViewsOf(call.wet_aero)[n][<<i, k>>])

\* C14 witness: the three functions have run on column 1 of fully populated
\* states in which the water vapour differs between the levels and is not zero,
\* and the dry values they passed through differ from the wet ones.
C14_Witness ==
  /\ call.phase[1] = 3
  /\ call.phase[0] = 0
  /\ wet_aero.cld_aero_mmr[<<1, 6>>] # NullView
  /\ dry_aero.cld_aero_mmr[<<1, 6>>] # NullView
  /\ ~RatEq(wet_atm.qv[<<1, 0>>], wet_atm.qv[<<1, 1>>])
  /\ ~RatEq(wet_atm.qv[<<1, 0>>], <<0, 1>>)
  /\ ~RatEq(dry_aero.gas_mmr[0][<<1, 0>>], wet_aero.gas_mmr[0][<<1, 0>>])
  /\ RatEq(wet_aero.gas_mmr[0][<<1, 0>>], call.wet_aero.gas_mmr[0][<<1, 0>>])

\* the views of a Prognostics as one function of their names
ProgViews(pr) ==
  [n \in {<<"n_mode_i", m>> : m \in Modes} \cup {<<"n_mode_c", m>> : m \in Modes}
           \cup {<<"q_aero_i", sl>> : sl \in Modes \X SpeciesSlots}
           \cup {<<"q_aero_c", sl>> : sl \in Modes \X SpeciesSlots}
           \cup {<<"q_gas", g>> : g \in Gases} |->
     pr[n[1]][n[2]]]

\* C15: after transfer_prognostics_to_work_arrays, convert_work_arrays_to_vmr,
\* convert_work_arrays_to_mmr and transfer_work_arrays_to_prognostics, in this
\* order and at the same level k, every gas, modal number and (mode, species)
\* mass value of the Prognostics, interstitial and cloudborne, is at level k the
\* number it was before, and every other level holds exactly what it held.
C15_WorkArrayRoundTrip ==
  (call.op = "work arrays" /\ call.completed /\ call.kw = call.k) =>
    \A n \in DOMAIN ProgViews(progs) :
      IF ProgViews(call.before)[n] = NullView
      THEN ProgViews(progs)[n] = NullView
      ELSE /\ RatEq(ProgViews(progs)[n][call.k], ProgViews(call.before)[n][call.k])
           /\ \A k \in Levs \ {call.k} : ProgViews(progs)[n][k] = ProgViews(call.before)[n][k]

\* C15 witness: the four functions have run at level 1; in between the work
\* arrays held volume mixing ratios that differ from the mass mixing ratios,
\* and the cloudborne and interstitial values carried differ.
C15_Witness ==
  /\ call.op = "work arrays"
  /\ call.completed
  /\ call.k = 1
  /\ call.kw = 1
  /\ ~RatEq(work.vmr[6], work.q[6])
  /\ ~RatEq(work.q[6], work.qqcw[6])
  /\ RatEq(progs.q_aero_i[<<0, 1>>][1], work.q[6])
  /\ RatEq(progs.q_aero_c[<<3, 2>>][1], work.qqcw[29])
  /\ RatEq(progs.n_mode_c[3][1], work.qqcw[30])

\* C16: a call of atmosphere_for_column fails fatally, naming a missing array,
\* exactly when one of its twelve arrays has no storage; otherwise it returns
\* column c of each of the twelve arrays together with the boundary-layer
\* height of column c, and nothing else.
C16_AtmosphereForColumn ==
  (call.op = "atmosphere_for_column") =>
    /\ call.status = "fatal" <=> \E f \in AtmFieldSet : dry_atm[f] = NullView
    /\ call.status = "fatal" => call.message \in AtmFieldSet /\ dry_atm[call.message] = NullView
    /\ call.status # "fatal" =>
         /\ call.status = "ok"
         /\ \A f \in AtmFieldSet : call.result[f] = subview(dry_atm[f], call.column)
         /\ dry_atm.pblh # NullView
         /\ call.result.pblh = dry_atm.pblh[call.column]

\* the arrays a call of one of the two aerosol constructors requires
RequiredBy(op) ==
  {<<"int_aero_nmr", m>> : m \in Modes} \cup {<<"gas_mmr", g>> : g \in Gases}
    \cup (IF op = "aerosols_for_column" THEN {<<"cld_aero_nmr", m>> : m \in Modes} ELSE {})

\* what the two aerosol constructors do apart from the mass slices: they fail
\* fatally exactly when a required array has no storage, and otherwise return
\* column c of every required array; interstitial_aerosols_for_column leaves
\* every cloudborne view without storage.
AerosolCallsRequired ==
  (call.op \in {"interstitial_aerosols_for_column", "aerosols_for_column"}) =>
    /\ call.status = "fatal" <=> \E n \in RequiredBy(call.op) : ViewsOf(dry_aero)[n] = NullView
    /\ call.status # "fatal" =>
         /\ call.status = "ok"
         /\ \A m \in Modes : call.result.n_mode_i[m] = subview(dry_aero.int_aero_nmr[m], call.column)
         /\ \A g \in Gases : call.result.q_gas[g] = subview(dry_aero.gas_mmr[g], call.column)
         /\ IF call.op = "aerosols_for_column"
            THEN \A m \in Modes :
                   call.result.n_mode_c[m] = subview(dry_aero.cld_aero_nmr[m], call.column)
            ELSE /\ \A m \in Modes : call.result.n_mode_c[m] = NullView
                 /\ \A sl \in Modes \X SpeciesSlots : call.result.q_aero_c[sl] = NullView

\* the mass slices of a successful call are populated exactly for the slots in
\* Populated(side), and a populated slice is column c of its source array
MassSlices(Populated(_)) ==
  (/\ call.op \in {"interstitial_aerosols_for_column", "aerosols_for_column"}
   /\ call.status = "ok") =>
    /\ \A sl \in Modes \X SpeciesSlots :
         /\ call.result.q_aero_i[sl] # NullView <=> sl \in Populated("int_aero_mmr")
         /\ call.result.q_aero_i[sl] # NullView =>
              call.result.q_aero_i[sl] = subview(dry_aero.int_aero_mmr[sl], call.column)
    /\ call.op = "aerosols_for_column" =>
         \A sl \in Modes \X SpeciesSlots :
           /\ call.result.q_aero_c[sl] # NullView <=> sl \in Populated("cld_aero_mmr")
           /\ call.result.q_aero_c[sl] # NullView =>
                call.result.q_aero_c[sl] = subview(dry_aero.cld_aero_mmr[sl], call.column)

AllocatedSlots(side) == {sl \in Modes \X SpeciesSlots : dry_aero[side][sl] # NullView}
ValidSlots == {sl \in Modes \X SpeciesSlots : mode_aero_species(sl[1], sl[2]) # AeroNone}
ValidAllocatedSlots(side) == AllocatedSlots(side) \cap ValidSlots

ViewFirst(v) == v.off * call.sizeofReal
ViewEnd(v) == (v.off + v.ext[1] * v.ext[2]) * call.sizeofReal

\* the views to which init_buffer must give storage
PlacedViews ==
  {<<"z_mid">>, <<"dz">>, <<"qv_dry">>, <<"qc_dry">>, <<"nc_dry">>, <<"qi_dry">>, <<"ni_dry">>,
   <<"w_updraft">>, <<"z_iface">>}
    \cup {<<"dry_int_aero_nmr", m>> : m \in Modes} \cup {<<"dry_cld_aero_nmr", m>> : m \in Modes}
    \cup {<<"dry_int_aero_mmr", sl[1], sl[2]>> : sl \in ValidSlots}
    \cup {<<"dry_cld_aero_mmr", sl[1], sl[2]>> : sl \in ValidSlots}
    \cup {<<"dry_gas_mmr", g>> : g \in Gases}
    \cup {<<"scratch", i>> : i \in 0..9}

\* C18: after init_buffer(ncol, nlev), every dry-atmosphere, modal number, valid
\* (mode, species) mass, gas and scratch view holds ncol x nlev Reals and z_iface
\* holds ncol x (nlev+1) Reals; the views' bytes are pairwise disjoint and lie
\* within the first buffer_size(ncol, nlev) bytes; the returned byte count is
\* buffer_size(ncol, nlev); and the mass views of invalid (mode, species) pairs
\* have no storage.
C18_BufferRegions ==
  (call.op = "init_buffer" /\ call.done) =>
    /\ \A n \in BufferViews : buffer.views[n] # NullView <=> n \in PlacedViews
    /\ \A n \in PlacedViews :
         /\ buffer.views[n].ext =
              <<call.ncol, IF n = <<"z_iface">> THEN call.nlev + 1 ELSE call.nlev>>
         /\ 0 <= ViewFirst(buffer.views[n])
         /\ ViewFirst(buffer.views[n]) < ViewEnd(buffer.views[n])
         /\ ViewEnd(buffer.views[n]) <= buffer_size(call.ncol, call.nlev, call.sizeofReal)
    /\ \A n1, n2 \in PlacedViews :
         n1 # n2 => \/ ViewEnd(buffer.views[n1]) <= ViewFirst(buffer.views[n2])
                    \/ ViewEnd(buffer.views[n2]) <= ViewFirst(buffer.views[n1])
    /\ buffer.returned = buffer_size(call.ncol, call.nlev, call.sizeofReal)

\* C18 witness: init_buffer has run for 3 columns and 5 levels with 8-byte
\* Reals; the last scratch view is followed directly by z_iface, which ends
\* where the returned byte count says.
C18_Witness ==
  /\ call.op = "init_buffer"
  /\ call.done
  /\ call.ncol = 3
  /\ call.nlev = 5
  /\ call.sizeofReal = 8
  /\ ViewEnd(buffer.views[<<"scratch", 9>>]) = ViewFirst(buffer.views[<<"z_iface">>])
  /\ ViewEnd(buffer.views[<<"z_iface">>]) = buffer.returned
  /\ buffer.views[<<"dry_cld_aero_mmr", 3, 3>>] = NullView

\* the sequential computation: thickness of every level, then the interfaces
\* from z_surf upwards, then the midpoints
SeqDz ==
  [c \in Cells |-> calculate_dz(dry_atm.p_del[c], dry_atm.p_mid[c], dry_atm.T_mid[c], dry_atm.qv[c])]
SeqZInt(k) == calculate_z_int(k, SeqDz, dry_atm.z_surf, call.column)
SeqZMid(k) == (SeqZInt(k) + SeqZInt(k + 1)) \div 2

StagesFrom(stage) ==
  CASE stage = "z_int" -> {"z_int", "barrier 2", "z_mid", "done"}
    [] stage = "z_mid" -> {"z_mid", "done"}

\* C19: in compute_vertical_layer_heights, while any thread of the team is in or
\* past the interface loop every level's thickness has been written and no
\* thread is still in the thickness loop; while any thread is in or past the
\* midpoint loop every interface height has been written; and when all threads
\* have returned, thickness, interfaces and midpoints of the column are those
\* of the sequential computation.
C19_BarriersOrderStages ==
  (call.op = "compute_vertical_layer_heights") =>
    /\ (\E t \in TeamThreads : team.thr[t].stage \in StagesFrom("z_int")) =>
         /\ \A t \in TeamThreads : team.thr[t].stage \notin {"start", "dz"}
         /\ \A k \in Levs : dry_atm.dz[<<call.column, k>>] = SeqDz[<<call.column, k>>]
    /\ (\E t \in TeamThreads : team.thr[t].stage \in StagesFrom("z_mid")) =>
         /\ \A t \in TeamThreads : team.thr[t].stage \in StagesFrom("z_mid")
         /\ \A k \in Ifaces : dry_atm.z_iface[<<call.column, k>>] = SeqZInt(k)
    /\ (\A t \in TeamThreads : team.thr[t].stage = "done") =>
         \A k \in Levs : dry_atm.z_mid[<<call.column, k>>] = SeqZMid(k)

\* C19 witness: both threads have returned from a call for column 1 in which
\* each of them ran a level, the surface is not at height 0 and the thicknesses
\* of the two lowest levels differ.
C19_Witness ==
  /\ call.op = "compute_vertical_layer_heights"
  /\ call.column = 1
  /\ \A t \in TeamThreads : team.thr[t].stage = "done"
  /\ team.assign[MaxLev - 1] # team.assign[MaxLev - 2]
  /\ dry_atm.z_surf = 10
  /\ dry_atm.dz[<<1, MaxLev - 1>>] # dry_atm.dz[<<1, MaxLev - 2>>]
  /\ dry_atm.z_iface[<<1, MaxLev - 2>>] =
       10 + dry_atm.dz[<<1, MaxLev - 1>>] + dry_atm.dz[<<1, MaxLev - 2>>]
  /\ dry_atm.z_mid[<<1, MaxLev - 1>>] # StaleHeight

\* the molecular weight of the species the table associates with index i: the
\* gas's, the aerosol species' own, 0 for a modal number
OwnSpeciesMw(i) ==
  IF gas_for_cnst[i + 1] # GasNone THEN gas_species_mw[gas_for_cnst[i + 1] + 1]
  ELSE IF aero_for_cnst[i + 1] # AeroNone THEN aero_species_mw[aero_for_cnst[i + 1] + 1]
  ELSE 0

\* C21: after convert_work_arrays_to_vmr every vmr[i] and vmrcw[i] is q[i] and
\* qqcw[i] converted with the molecular weight of index i's own species (copied
\* for a modal number), and after convert_work_arrays_to_mmr every q[i] and
\* qqcw[i] is vmr[i] and vmrcw[i] converted back with that same weight.
C21_ConvertUsesOwnSpeciesWeight ==
  (call.op = "work arrays") =>
    \A i \in Cnsts :
      /\ call.phase = 2 =>
           IF OwnSpeciesMw(i) = 0
           THEN work.vmr[i] = work.q[i] /\ work.vmrcw[i] = work.qqcw[i]
           ELSE /\ RatEq(work.vmr[i], vmr_from_mmr(work.q[i], OwnSpeciesMw(i)))
                /\ RatEq(work.vmrcw[i], vmr_from_mmr(work.qqcw[i], OwnSpeciesMw(i)))
      /\ call.phase = 3 =>
           IF OwnSpeciesMw(i) = 0
           THEN work.q[i] = work.vmr[i] /\ work.qqcw[i] = work.vmrcw[i]
           ELSE /\ RatEq(work.q[i], mmr_from_vmr(work.vmr[i], OwnSpeciesMw(i)))
                /\ RatEq(work.qqcw[i], mmr_from_vmr(work.vmrcw[i], OwnSpeciesMw(i)))

\* the kinds of structured slot index i is assigned to
KindsOf(i) ==
  (IF gas_for_cnst[i + 1] # GasNone THEN {"gas"} ELSE {})
    \cup (IF mode_for_cnst[i + 1] # ModeNone /\ aero_for_cnst[i + 1] # AeroNone THEN {"mass"} ELSE {})
    \cup (IF mode_for_cnst[i + 1] # ModeNone /\ aero_for_cnst[i + 1] = AeroNone THEN {"number"} ELSE {})

\* the structured slot of index i
SlotOf(i) ==
  IF gas_for_cnst[i + 1] # GasNone THEN <<"gas", gas_for_cnst[i + 1]>>
  ELSE IF aero_for_cnst[i + 1] # AeroNone
  THEN <<"mass", mode_for_cnst[i + 1], aero_for_cnst[i + 1]>>
  ELSE <<"number", mode_for_cnst[i + 1]>>

\* the structured slots: the gases, the modal numbers and the valid (mode,
\* species) pairs
StructuredSlots ==
  {<<"gas", g>> : g \in Gases} \cup {<<"number", m>> : m \in Modes}
    \cup {<<"mass", sl[1], mode_aero_species(sl[1], sl[2])>> : sl \in ValidSlots}

\* C22: the three tables have length gas_pcnst; every index has exactly one
\* kind (gas, aerosol mass or modal number); the indices map one-to-one onto
\* the gases, the modal numbers and the valid (mode, species) pairs; and every
\* (mode, species) pair of the table is carried by its mode.  The transfer to
\* the work arrays therefore fills index i from the slot of index i alone.
C22_TableIsBijection ==
  /\ Len(mode_for_cnst) = gas_pcnst
  /\ Len(aero_for_cnst) = gas_pcnst
  /\ Len(gas_for_cnst) = gas_pcnst
  /\ gas_pcnst = num_aero_gases + num_aero_modes + num_aero_tracers
  /\ \A i \in Cnsts : Cardinality(KindsOf(i)) = 1
  /\ \A i, j \in Cnsts : SlotOf(i) = SlotOf(j) => i = j
  /\ {SlotOf(i) : i \in Cnsts} = StructuredSlots
  /\ \A i \in Cnsts :
       "mass" \in KindsOf(i) =>
         aerosol_index_for_mode(mode_for_cnst[i + 1], aero_for_cnst[i + 1]) # -1
  /\ (call.op = "work arrays" /\ call.phase = 1) =>
       \A i \in Cnsts :
         work.q[i] =
           CASE SlotOf(i)[1] = "gas" -> progs.q_gas[SlotOf(i)[2]][call.k]
             [] SlotOf(i)[1] = "number" -> progs.n_mode_i[SlotOf(i)[2]][call.k]
             [] SlotOf(i)[1] = "mass" ->
                  progs.q_aero_i[<<SlotOf(i)[2],
                                   aerosol_index_for_mode(SlotOf(i)[2], SlotOf(i)[3])>>][call.k]

\* C22 witness: the work arrays were filled at level 1 from a Prognostics whose
\* Aitken NaCl mass (index 16, slot 2 of mode 1) differs from its neighbours.
C22_Witness ==
  /\ call.op = "work arrays"
  /\ call.phase = 1
  /\ call.k = 1
  /\ SlotOf(16) = <<"mass", 1, AeroNaCl>>
  /\ work.q[16] = progs.q_aero_i[<<1, 2>>][1]
  /\ work.q[16] # work.q[15]
  /\ work.q[16] # work.qqcw[16]

\* the step is a call of set_unique_source_dofs, or an add_remap_segment that
\* runs it because the unique set was computed before
RunsSetUniqueSourceDofs ==
  \/ added' = added /\ dofs_arg' = dofs_arg /\ applied' = FALSE /\ check_out' = NoCheck
  \/ added' # added /\ gsmap.m_unique_set

\* C23: set_unique_source_dofs, called directly or inside add_remap_segment,
\* fails fatally exactly when some segment's target DOF is not in the map's
\* local DOF list (which is empty when set_dof_gids was never called); when it
\* succeeds, m_dofs_gids[m_dof_idx] is the target DOF of every segment.
C23_UnknownTargetDofIsFatal ==
  [][RunsSetUniqueSourceDofs =>
       /\ status' = "fatal" <=> ~AllLocal(gsmap')
       /\ status' = "ok" <=> AllLocal(gsmap')
       /\ status' = "ok" =>
            \A k \in 1..Len(gsmap'.m_map_segments) :
              LET s == gsmap'.m_map_segments[k]
              IN /\ s.m_dof_idx >= 0
                 /\ s.m_dof_idx < gsmap'.m_num_dofs
                 /\ gsmap'.m_dofs_gids[s.m_dof_idx + 1] = s.m_dof]_vars

\* C23 witness: set_dof_gids was never called, the unique set was computed for
\* the empty map, and the add_remap_segment that followed failed in its
\* implicit set_unique_source_dofs.
C23_Witness ==
  /\ ~gsmap.m_dofs_set
  /\ unique_first.called
  /\ unique_first.adds = 0
  /\ Len(added) = 1
  /\ gsmap.m_num_segments = 1
  /\ status = "fatal"

\* the target DOF ids of the file whose entries are not contiguous
NonContiguousDofs(file) ==
  {v \in Range(file.row) :
     \E i, j, k \in 1..Len(file.row) :
       i < k /\ k < j /\ file.row[i] = v /\ file.row[j] = v /\ file.row[k] # v}

\* the map holds one segment for the file's target DOF id v and it holds all the
\* file entries of v, in file order
SingleSegmentWithAllEntries(file, v) ==
  LET min == FileMinRow(file)
      idx == EntryIdx(file, v)
  IN /\ Cardinality({k \in 1..Len(Segs) : Segs[k].m_dof = v - min}) = 1
     /\ \A k \in 1..Len(Segs) :
          Segs[k].m_dof = v - min =>
            /\ Segs[k].m_length = Len(idx)
            /\ Segs[k].m_source_dofs = [i \in 1..Len(idx) |-> file.col[idx[i]] - min]
            /\ Segs[k].m_weights = [i \in 1..Len(idx) |-> file.S[idx[i]]]

\* a load that returned normally on a rank, no rank having an empty chunk
LoadedAllChunksNonEmpty ==
  /\ load_info.complete
  /\ status = "ok"
  /\ EmptyRanks(remap_file, num_ranks) = {}

MinOf(seq) == CHOOSE x \in Range(seq) : \A y \in Range(seq) : x <= y

\* the triples of load_info tile the rank's chunk of "row"
TriplesTileChunk ==
  LET n  == Len(load_info.chunk_dof)
      ms == load_info.my_start
      mc == load_info.my_chunk
      chunk == ReadRowChunk(remap_file, ms, mc)
  IN /\ Len(load_info.chunk_start) = n
     /\ Len(load_info.chunk_len) = n
     /\ mc = 0 => n = 0
     /\ StrictlyAscending(load_info.chunk_start)
     /\ Sum(load_info.chunk_len) = mc
     /\ \A t \in 1..n :
          /\ load_info.chunk_len[t] >= 1
          /\ load_info.chunk_start[t] >= ms
          /\ load_info.chunk_start[t] + load_info.chunk_len[t] <= ms + mc
          /\ t < n => load_info.chunk_start[t] + load_info.chunk_len[t] = load_info.chunk_start[t + 1]
          /\ \A i \in load_info.chunk_start[t]..(load_info.chunk_start[t] + load_info.chunk_len[t] - 1) :
               i < Len(remap_file.row) /\ remap_file.row[i + 1] = load_info.chunk_dof[t]
     /\ mc > 0 => load_info.remap_min_dof = MinOf(chunk)

\* C25: on every rank, for every n_s >= 0 and every rank count, the (dof, start,
\* length) triples built from the rank's chunk of "row" tile the chunk: starts
\* ascending, lengths summing to the chunk size, every covered index inside
\* [my_start, my_start + my_chunk) and holding the triple's DOF, the local
\* minimum being the minimum of the chunk's values; a rank whose chunk is empty
\* builds no triple, and the grouping reads nothing outside the chunk.
C25_TriplesTileChunk ==
  /\ load_info.loaded => status # "crash"
  /\ load_info.complete => TriplesTileChunk

\* the zero based positions of the target buffer that are the m_dof_idx of a segment
WrittenIdx(m) == {m.m_map_segments[k].m_dof_idx : k \in 1..m.m_num_segments}

\* no write of apply_remap goes through a never assigned m_dof_idx
NoWild(m) == [k \in 1..m.m_num_segments |-> 0]

\* C26: apply_remap overwrites and does not accumulate: the value at a
\* segment's m_dof_idx is the segment's weighted sum whatever the target held
\* before, every target element whose index is the m_dof_idx of no segment
\* keeps its previous value, and a second apply_remap with the same source
\* leaves the target as the first did.
C26_ApplyRemapOverwrites ==
  (applied /\ status = "ok" /\ gsmap.m_num_dofs > 0 /\ ~HasUninitIdx(gsmap)) =>
    /\ \A k \in 1..gsmap.m_num_segments :
         remapped_data[Segs[k].m_dof_idx + 1] = apply_segment(Segs[k], source_data)
    /\ \A j \in 1..Len(remapped_data) :
         (j - 1) \notin WrittenIdx(gsmap) => remapped_data[j] = remapped_old[j]
    /\ \E device \in BOOLEAN :
         /\ remapped_data = apply_remap(gsmap, source_data, remapped_old, device, NoWild(gsmap))
         /\ apply_remap(gsmap, source_data, remapped_data, device, NoWild(gsmap)) = remapped_data

\* the views of an AerosolState that the kernels treat as optional
OptionalFields == {"cld_aero_nmr", "int_aero_mmr", "cld_aero_mmr"}

\* every optional slot with storage in both states was converted in column i
\* and every other optional slot is as it was
SlotsConvertedOrSkipped(after, to, from, qv, i, F(_, _)) ==
  \A f \in OptionalFields : \A x \in DOMAIN to[f] :
    IF to[f][x] # NullView /\ from[f][x] # NullView
    THEN \A c \in Cells :
           after[f][x][c] = IF c[1] = i THEN F(from[f][x][c], qv[c]) ELSE to[f][x][c]
    ELSE after[f][x] = to[f][x]

\* C27: compute_dry_mixing_ratios (aerosol) and compute_wet_mixing_ratios
\* convert every cloudborne number slot and every interstitial or cloudborne
\* mass slot that is populated and skip the others: a slot without storage in
\* the wet or in the dry aerosol state is neither read nor written, so no call
\* faults and a skipped slot is left as it was.
C27_SkipsUnpopulatedSlots ==
  [][/\ call'.status # "crash"
     /\ \A i \in Cols :
          (call.phase[i] = 1 /\ call'.phase[i] = 2) =>
            SlotsConvertedOrSkipped(dry_aero', dry_aero, wet_aero, wet_atm.qv, i,
                                    calculate_drymmr_from_wetmmr)
     /\ \A i \in Cols :
          (call.phase[i] = 2 /\ call'.phase[i] = 3) =>
            SlotsConvertedOrSkipped(wet_aero', wet_aero, dry_aero, dry_atm.qv, i,
                                    calculate_wetmmr_from_drymmr)]_vars

\* C28: apply_remap does not write the map: the local DOF list, the segment
\* list and every member of every segment (target DOF, length, source DOFs,
\* weights, m_source_idx, m_dof_idx) and the unique source list are the same
\* after every step of a call; and of two calls on the same map with different
\* buffers, run concurrently in any interleaving, each leaves in its target
\* what it leaves when it runs alone.
C28_ApplyRemapReadsMapOnly ==
  [][/\ gsmap' = gsmap
     /\ \A t \in ApplyCallers :
          thr'[t].pc = "done" =>
            thr'[t].tgt = apply_remap(gsmap, thr[t].src, thr[t].old, thr[t].device,
                                      NoWild(gsmap))]_vars

\* C28 witness: both calls have returned; they ran on a map with two segments,
\* from sources that differ, and caller 2 entered while caller 1 was in its
\* loop (caller 1 holds the result of its own source).
C28_Witness ==
  /\ thr # <<>>
  /\ \A t \in ApplyCallers : thr[t].pc = "done" /\ thr[t].iseg = 2
  /\ gsmap.m_num_segments = 2
  /\ thr[1].src # thr[2].src
  /\ thr[1].tgt # thr[2].tgt
  /\ thr[1].tgt # thr[1].old

\* set_dof_gids has been called and has returned normally
DofsWereSet == dofs_arg.called /\ Len(dofs_arg.dofs_gids) > 0

\* C29: check() stops with the "Global DOFS not yet set" error exactly when
\* set_dof_gids has not been called on the map (successfully), whatever else
\* the map holds; set_dof_gids rejects an empty DOF list with a fatal error and
\* leaves the map alone, and otherwise stores every id (offset by min_dof) and
\* sets m_dofs_set.
C29_DofsNotSetError ==
  [][/\ (check_out' # check_out /\ check_out'.res # "none") =>
          /\ check_out'.res = "dofs_not_set" <=> ~DofsWereSet
          /\ check_out'.res = "dofs_not_set" => status' = "fatal"
     /\ dofs_arg' # dofs_arg =>
          IF Len(dofs_arg'.dofs_gids) = 0
          THEN status' = "fatal" /\ gsmap' = gsmap
          ELSE /\ status' = "ok"
               /\ gsmap'.m_dofs_set
               /\ gsmap'.m_num_dofs = Len(dofs_arg'.dofs_gids)
               /\ \A ii \in 1..Len(dofs_arg'.dofs_gids) :
                    gsmap'.m_dofs_gids[ii] = dofs_arg'.dofs_gids[ii] - dofs_arg'.min_dof
     /\ gsmap'.m_dofs_set <=> DofsWereSet']_vars

\* C29 witness: check() ran on a map that holds a segment and whose
\* set_dof_gids was never called, and stopped with the DOFS error.
C29_Witness ==
  /\ check_out.res = "dofs_not_set"
  /\ ~dofs_arg.called
  /\ Len(added) >= 1
  /\ gsmap.m_num_segments >= 1
  /\ status = "fatal"

\* the names of the views of an AerosolState that have storage
ViewsOfAerosol(a) ==
  {<<"int_aero_nmr", m>> : m \in Modes} \cup {<<"gas_mmr", g>> : g \in Gases} \cup DataViews(a)

AerosolView(a, v) == a[v[1]][v[2]]

\* the cells whose thread has run the body of the kernel
DoneCells ==
  {c \in Cells : team[c[1]].pc = "run" /\ c[2] \notin team[c[1]].left}

\* the kernel reads no view without storage
KernelInputsReadable ==
  /\ call.kernel = "compute_dry_mixing_ratios (aerosol)" => ~ReadsNullView(dry_aero, wet_aero)
  /\ call.kernel = "compute_wet_mixing_ratios" => ~ReadsNullView(wet_aero, dry_aero)

\* the kernel run for the columns 0..n-1 one after the other, all levels of a
\* column at once, on the state st = [dry_atm, wet_aero, dry_aero] of the call
RECURSIVE ColumnByColumn(_, _)
ColumnByColumn(st, n) ==
  IF n = 0 THEN st
  ELSE LET b == ColumnByColumn(st, n - 1)
           i == n - 1
       IN CASE call.kernel = "compute_updraft_velocities" ->
                 [b EXCEPT !.dry_atm = compute_updraft_velocities(wet_atm, b.dry_atm, i)]
            [] call.kernel = "compute_dry_mixing_ratios (atmosphere)" ->
                 [b EXCEPT !.dry_atm = compute_dry_mixing_ratios_atm(wet_atm, b.dry_atm, i)]
            [] call.kernel = "compute_dry_mixing_ratios (aerosol)" ->
                 [b EXCEPT !.dry_aero =
                    compute_dry_mixing_ratios_aero(wet_atm, b.wet_aero, b.dry_aero, i)]
            [] call.kernel = "compute_wet_mixing_ratios" ->
                 [b EXCEPT !.wet_aero =
                    compute_wet_mixing_ratios(b.dry_atm, b.dry_aero, b.wet_aero, i)]

\* every element whose thread has run holds what `final` holds there and every
\* other element what `orig` holds
CellsAgree(now, orig, final) ==
  \A c \in Cells : now[c] = IF c \in DoneCells THEN final[c] ELSE orig[c]

AerosolCellsAgree(now, orig, final) ==
  /\ ViewsOfAerosol(now) = ViewsOfAerosol(orig)
  /\ \A v \in ViewsOfAerosol(now) :
       CellsAgree(AerosolView(now, v), AerosolView(orig, v), AerosolView(final, v))

\* C30: in the four conversion kernels the thread of level k of the team of
\* column i reads and writes the elements (i,k) only, and a kernel refuses a
\* column index that is not the league rank of its team: whatever the order in
\* which the levels and columns are taken, every element whose thread has run
\* holds what the kernel run column by column leaves there, and every other
\* element holds what it held before the call.
C30_KernelsPerCellIndependent ==
  (call.op = "kernel") =>
    /\ \A i \in Cols : team[i].pc = "run" => team[i].column_index = i
    /\ \A i \in Cols : team[i].pc = "refused" => call.status = "fatal" /\ team[i].left = Levs
    /\ (call.status = "ok" /\ KernelInputsReadable) =>
         LET final == ColumnByColumn([dry_atm |-> call.dry_atm, wet_aero |-> call.wet_aero,
                                      dry_aero |-> call.dry_aero], MaxCol)
         IN /\ DOMAIN dry_atm = DOMAIN call.dry_atm
            /\ \A f \in DOMAIN dry_atm : CellsAgree(dry_atm[f], call.dry_atm[f], final.dry_atm[f])
            /\ AerosolCellsAgree(wet_aero, call.wet_aero, final.wet_aero)
            /\ AerosolCellsAgree(dry_aero, call.dry_aero, final.dry_aero)

\* C30 witness: the aerosol kernel has run level 1 of column 1 and level 0 of
\* column 0 and no other level; the two elements written differ from what they
\* held and from each other.
C30_Witness ==
  /\ call.op = "kernel"
  /\ call.kernel = "compute_dry_mixing_ratios (aerosol)"
  /\ call.status = "ok"
  /\ KernelInputsReadable
  /\ DoneCells = {<<0, 0>>, <<1, 1>>}
  /\ dry_aero.int_aero_nmr[0][<<0, 0>>] # call.dry_aero.int_aero_nmr[0][<<0, 0>>]
  /\ dry_aero.int_aero_nmr[0][<<1, 1>>] # dry_aero.int_aero_nmr[0][<<0, 0>>]
  /\ dry_aero.int_aero_nmr[0][<<0, 1>>] = call.dry_aero.int_aero_nmr[0][<<0, 1>>]

====
